---- MODULE Spec2Model ----
(***************************************************************************)
(* Model of the attribution engine of token-cluster                        *)
(* (lib/holdings-analyzer.ts: traceTokenOrigin, reconstructWalletHistory,  *)
(* buildOutboundSummary, analyzeHoldings and its helpers) together with    *)
(* the graph builder of the deep-scan route that feeds it.                 *)
(*                                                                         *)
(* Amounts are JavaScript numbers.  Transfer amounts are modelled in whole *)
(* token units, that is after parseFloat(value) / 10^decimals; the model   *)
(* keeps them integral, and every comparison the code makes against a      *)
(* fractional threshold (0.7, 0.3, 0.5, 0.9, 0.01) is written as the       *)
(* cross-multiplied integer comparison, which agrees with the IEEE-754     *)
(* result for the small integers used here.  A percentage is kept as the   *)
(* exact fraction <<numerator, denominator>>.                              *)
(***************************************************************************)
EXTENDS Integers, Sequences, FiniteSets, TLC

(* ------------------------------------------------------------------ *)
(* Addresses                                                          *)
(* ------------------------------------------------------------------ *)

\* The address under investigation (analyzeHoldings: targetWallet.toLowerCase()).
Target == "target"

\* Ordinary externally owned wallets.
W1 == "w1"
W2 == "w2"
W3 == "w3"

\* A contract found by bytecode detection (detectedContracts), e.g. an LP pair.
Pair == "pair"

\* One of the hard-coded DEX routers.
Router == "router"

\* The zero address and a dead-address sentinel.
ZeroAddr == "zero"
DeadAddr == "dead"

DEX_ROUTER_ADDRS == {Router}

BURN_ADDRESSES == {ZeroAddr, DeadAddr}

\* KNOWN_CONTRACTS restricted to the addresses of the model: the routers and
\* the null address carry a label, nothing else does.
KNOWN_CONTRACTS == [a \in {Router, ZeroAddr} |->
                      IF a = Router THEN "TraderJoe Router v2" ELSE "Null Address"]

\* String.prototype.toLowerCase on an address.  A funding source may arrive
\* in checksum case ("F1"); every other address of the model is lower case.
ToLower(a) ==
  CASE a = "F1" -> "f1"
    [] a = "F2" -> "f2"
    [] OTHER -> a

isDexRouter(addr) == ToLower(addr) \in DEX_ROUTER_ADDRS

isBurnAddress(addr) == ToLower(addr) \in BURN_ADDRESSES

getDexName(addr) ==
  IF ToLower(addr) \in DOMAIN KNOWN_CONTRACTS
    THEN KNOWN_CONTRACTS[ToLower(addr)]
    ELSE "Unknown DEX"

(* ------------------------------------------------------------------ *)
(* JavaScript numbers                                                 *)
(* ------------------------------------------------------------------ *)

\* The value parseFloat gives for text that is no number.
NaN == -999999

\* The raw amount of a transfer whose text cannot be parsed (no transfer of
\* the ledger has a negative amount, so -1 is free to stand for such text).
Unparseable == -1

\* An accumulation that overwrites instead of adding, for comparison.
JsKeepLast(a, b) == IF a = NaN \/ b = NaN THEN NaN ELSE b

JsAdd(a, b) == IF a = NaN \/ b = NaN THEN NaN ELSE a + b

JsSub(a, b) == IF a = NaN \/ b = NaN THEN NaN ELSE a - b

JsGt(a, b) == a # NaN /\ b # NaN /\ a > b

JsGe(a, b) == a # NaN /\ b # NaN /\ a >= b

JsLt(a, b) == a # NaN /\ b # NaN /\ a < b

JsLe(a, b) == a # NaN /\ b # NaN /\ a <= b

\* x || 0 : NaN and 0 are falsy.
OrZero(x) == IF x = NaN THEN 0 ELSE x

\* An exclusive threshold, for comparison with the inclusive one below.
RatioGeStrict(a, t, num, den) == a # NaN /\ t # NaN /\ a * den > num * t

\* a / t compared with num / den, for t > 0 (every division of the code is
\* guarded by t > 0 or t !== 0).
RatioGe(a, t, num, den) == a # NaN /\ t # NaN /\ a * den >= num * t

RatioGt(a, t, num, den) == a # NaN /\ t # NaN /\ a * den > num * t

\* a compared with b * num / den.
GtScaled(a, b, num, den) == a # NaN /\ b # NaN /\ a * den > b * num

LeScaled(a, b, num, den) == a # NaN /\ b # NaN /\ a * den <= b * num

\* The share as a fraction of one rather than of a hundred, for comparison.
PercentageAsFraction(amount, totalOut) ==
  IF JsGt(totalOut, 0) THEN <<amount, totalOut>> ELSE <<0, 1>>

\* totalOut > 0 ? (amount / totalOut) * 100 : 0, as an exact fraction.
Percentage(amount, totalOut) ==
  IF JsGt(totalOut, 0) THEN <<amount * 100, totalOut>> ELSE <<0, 1>>

\* parseFloat(tx.value) / Math.pow(10, decimals), in whole tokens.
Amount(tx) == IF tx.value = Unparseable THEN NaN ELSE tx.value

\* parseInt(tx.timeStamp, 10)
Ts(tx) == tx.timeStamp

(* ------------------------------------------------------------------ *)
(* Array helpers                                                      *)
(* ------------------------------------------------------------------ *)

Min2(a, b) == IF a <= b THEN a ELSE b

Front(s) == SubSeq(s, 1, Len(s) - 1)

\* Array.prototype.slice(0, n)
Slice(s, n) == SubSeq(s, 1, Min2(n, Len(s)))

Range(s) == {s[i] : i \in 1..Len(s)}

\* Array.prototype.sort is stable: an element goes behind every element that
\* does not compare greater than it.
InsertByTs(sorted, tx) ==
  LET k == Cardinality({i \in 1..Len(sorted) : Ts(sorted[i]) <= Ts(tx)})
  IN  SubSeq(sorted, 1, k) \o <<tx>> \o SubSeq(sorted, k + 1, Len(sorted))

RECURSIVE SortByTs(_)
\* .sort((a, b) => parseInt(a.timeStamp, 10) - parseInt(b.timeStamp, 10))
SortByTs(s) ==
  IF s = <<>> THEN <<>> ELSE InsertByTs(SortByTs(Front(s)), s[Len(s)])

(* ------------------------------------------------------------------ *)
(* Wallet history reconstruction                                      *)
(* ------------------------------------------------------------------ *)

\* balances[addr] ?? 0
BalanceOf(balances, addr) ==
  IF addr \in DOMAIN balances THEN balances[addr] ELSE 0

\* recipientMap.get(to) || 0 reads 0 for a key that is not in the map.
MapGet(m, key) ==
  IF \E i \in 1..Len(m) : m[i][1] = key
    THEN m[CHOOSE i \in 1..Len(m) : m[i][1] = key][2]
    ELSE 0

\* Map.prototype.set: an existing key keeps its place, a new one goes last.
MapSet(m, key, val) ==
  IF \E i \in 1..Len(m) : m[i][1] = key
    THEN [i \in 1..Len(m) |-> IF m[i][1] = key THEN <<key, val>> ELSE m[i]]
    ELSE Append(m, <<key, val>>)

\* Set.prototype.add on the insertion-ordered set of DEX names.
SetAdd(s, x) == IF x \in Range(s) THEN s ELSE Append(s, x)

\* The accumulators of the replay loop before its first iteration.
ReplayInit ==
  [ runningBalance |-> 0, peakBalance |-> 0, peakDate |-> 0,
    totalReceived |-> 0, totalSent |-> 0,
    soldOnDexAmount |-> 0, soldOnDexCount |-> 0, dexNames |-> <<>>,
    sentToWalletsAmount |-> 0, recipientMap |-> <<>>,
    burnedAmount |-> 0 ]

\* The destination bucket of an outgoing transfer.
DestinationBucket(to, contractSet) ==
  IF isBurnAddress(to) THEN "burned"
  ELSE IF isDexRouter(to) \/ to \in contractSet THEN "dex"
  ELSE "wallet"

\* One iteration of the replay loop, without the clamp and the peak update.
ReplayMove(st, tx, addr, contractSet) ==
  LET to == ToLower(tx.to)
      value == Amount(tx)
      bucket == DestinationBucket(to, contractSet)
  IN  IF to = addr
        THEN [st EXCEPT !.runningBalance = JsAdd(@, value),
                        !.totalReceived = JsAdd(@, value)]
        ELSE [st EXCEPT
               !.runningBalance = JsSub(@, value),
               !.totalSent = JsAdd(@, value),
               !.burnedAmount = IF bucket = "burned" THEN JsAdd(@, value) ELSE @,
               !.soldOnDexAmount = IF bucket = "dex" THEN JsAdd(@, value) ELSE @,
               !.soldOnDexCount = IF bucket = "dex" THEN @ + 1 ELSE @,
               !.dexNames =
                 IF bucket = "dex"
                   THEN SetAdd(@, IF isDexRouter(to) THEN getDexName(to)
                                  ELSE IF to \in DOMAIN KNOWN_CONTRACTS
                                         THEN KNOWN_CONTRACTS[to]
                                         ELSE "DEX/Contract")
                   ELSE @,
               !.sentToWalletsAmount = IF bucket = "wallet" THEN JsAdd(@, value) ELSE @,
               !.recipientMap =
                 IF bucket = "wallet"
                   THEN MapSet(@, to, JsAdd(OrZero(MapGet(@, to)), value))
                   ELSE @]

\* A running balance that is left below zero, for comparison.
KeepBalance(r) == r

\* if (runningBalance < 0) runningBalance = 0
ClampBalance(r) == IF JsLt(r, 0) THEN 0 ELSE r

\* An iteration that takes the balance it ends with for the peak, whether or
\* not it is above the peak so far, for comparison.
ReplayStepLastBalance(st, tx, addr, contractSet) ==
  LET moved == ReplayMove(st, tx, addr, contractSet)
      clamped == [moved EXCEPT !.runningBalance = ClampBalance(@)]
  IN  [clamped EXCEPT !.peakBalance = clamped.runningBalance, !.peakDate = Ts(tx)]

\* One whole iteration of the replay loop.
ReplayStep(st, tx, addr, contractSet) ==
  LET moved == ReplayMove(st, tx, addr, contractSet)
      clamped == [moved EXCEPT !.runningBalance = ClampBalance(@)]
  IN  IF JsGt(clamped.runningBalance, clamped.peakBalance)
        THEN [clamped EXCEPT !.peakBalance = clamped.runningBalance,
                             !.peakDate = Ts(tx)]
        ELSE clamped

RECURSIVE Replay(_, _, _)
\* for (const tx of walletTxs) { ... }
Replay(txs, addr, contractSet) ==
  IF txs = <<>> THEN ReplayInit
  ELSE ReplayStep(Replay(Front(txs), addr, contractSet), txs[Len(txs)], addr, contractSet)

\* Sorting the caller's array in place before filtering it, for comparison.
SortThenFilter(transfers, addr) ==
  [ walletTxs |-> SelectSeq(SortByTs(transfers),
                    LAMBDA tx : ToLower(tx.from) = addr \/ ToLower(tx.to) = addr),
    transfers |-> SortByTs(transfers) ]

\* transfers.filter(from === addr || to === addr).sort(by timestamp): filter
\* returns a new array and sort works in place on that array, so the caller's
\* array keeps its elements and their order.  walletTxs is the sorted copy,
\* transfers the caller's array after the statement.
FilterThenSort(transfers, addr) ==
  [ walletTxs |-> SortByTs(SelectSeq(transfers,
                    LAMBDA tx : ToLower(tx.from) = addr \/ ToLower(tx.to) = addr)),
    transfers |-> transfers ]

WalletTxs(transfers, addr) == FilterThenSort(transfers, addr).walletTxs

\* An insertion that leaves the entries in the order of the Map, for
\* comparison.
InsertInMapOrder(sorted, e) == Append(sorted, e)

\* .sort((a, b) => b[1] - a[1]) on the entries of a Map: stable, descending.
InsertByAmountDesc(sorted, e) ==
  LET k == Cardinality({i \in 1..Len(sorted) : ~JsLt(sorted[i][2], e[2])})
  IN  SubSeq(sorted, 1, k) \o <<e>> \o SubSeq(sorted, k + 1, Len(sorted))

RECURSIVE SortByAmountDesc(_)
SortByAmountDesc(s) ==
  IF s = <<>> THEN <<>>
  ELSE InsertByAmountDesc(SortByAmountDesc(Front(s)), s[Len(s)])

\* The length of the recipient lists (slice(0, 10)).
TopRecipients == 10

RECURSIVE SumAmounts(_)
\* The sum, in array order, of the amounts of the transfers of txs.
SumAmounts(txs) ==
  IF txs = <<>> THEN 0 ELSE JsAdd(SumAmounts(Front(txs)), Amount(txs[Len(txs)]))

\* isDexRouter(dest) || (contractSet.has(dest) && !isBurnAddress(dest))
IsSellDestination(dest, contractSet) ==
  isDexRouter(dest) \/ (dest \in contractSet /\ ~isBurnAddress(dest))

\* The second-hop loop: what the recipient sent on to DEX routers and contracts.
RecipSoldOnDex(transfers, recipAddr, contractSet) ==
  SumAmounts(SelectSeq(transfers,
    LAMBDA tx : /\ ToLower(tx.from) = recipAddr
                /\ IsSellDestination(ToLower(tx.to), contractSet)))

\* The second-hop loop: what the recipient sent on to other wallets.
RecipPassedAlong(transfers, recipAddr, contractSet) ==
  SumAmounts(SelectSeq(transfers,
    LAMBDA tx : /\ ToLower(tx.from) = recipAddr
                /\ ~IsSellDestination(ToLower(tx.to), contractSet)
                /\ ~isBurnAddress(ToLower(tx.to))))

\* The status of a RecipientDisposition.
RecipientStatus(recipBalance, amount, recipSoldOnDex, recipPassedAlong) ==
  IF GtScaled(recipBalance, amount, 1, 2) THEN "holding"
  ELSE IF GtScaled(recipSoldOnDex, amount, 1, 2) THEN "sold"
  ELSE IF GtScaled(recipPassedAlong, amount, 1, 2) THEN "passed-along"
  ELSE IF JsGt(recipSoldOnDex, 0) \/ JsGt(recipPassedAlong, 0) THEN "mixed"
  ELSE "holding"

\* One RecipientDisposition, from an entry <<recipAddr, amount>> of recipientMap.
RecipientDisposition(entry, transfers, contractSet, balances) ==
  LET recipAddr == entry[1]
      amount == entry[2]
      recipBalance == BalanceOf(balances, recipAddr)
      recipSoldOnDex == RecipSoldOnDex(transfers, recipAddr, contractSet)
      recipPassedAlong == RecipPassedAlong(transfers, recipAddr, contractSet)
  IN  [ address |-> recipAddr,
        amountReceived |-> amount,
        currentBalance |-> recipBalance,
        soldFromHere |-> recipSoldOnDex,
        passedAlong |-> recipPassedAlong,
        stillHolding |-> recipBalance,
        status |-> RecipientStatus(recipBalance, amount, recipSoldOnDex, recipPassedAlong) ]

\* Array.from(recipientMap.entries()).sort(...).slice(0, 10).map(...)
Recipients(recipientMap, transfers, contractSet, balances) ==
  LET top == Slice(SortByAmountDesc(recipientMap), TopRecipients)
  IN  [i \in 1..Len(top) |-> RecipientDisposition(top[i], transfers, contractSet, balances)]

\* const sentToContractsAmount = 0
sentToContractsAmount == 0

\* A ghost test that leaves out the boundary of one percent, for comparison.
IsGhostBelowOnePercent(peakBalance, currentBalance) ==
  JsGt(peakBalance, 0) /\ currentBalance # NaN /\ currentBalance * 100 < peakBalance

\* isGhost: peakBalance > 0 && currentBalance <= peakBalance * 0.01
IsGhost(peakBalance, currentBalance) ==
  JsGt(peakBalance, 0) /\ LeScaled(currentBalance, peakBalance, 1, 100)

\* The WalletHistory built from the accumulators of the replay loop.
BuildHistory(wallet, st, transfers, contractSet, balances) ==
  LET currentBalance == BalanceOf(balances, ToLower(wallet))
      totalOut == JsAdd(JsAdd(JsAdd(st.soldOnDexAmount, st.sentToWalletsAmount),
                              sentToContractsAmount), st.burnedAmount)
  IN  [ address |-> wallet,
        currentBalance |-> currentBalance,
        peakBalance |-> st.peakBalance,
        peakDate |-> st.peakDate,
        totalReceived |-> st.totalReceived,
        totalSent |-> st.totalSent,
        netDisposed |-> JsSub(st.peakBalance, currentBalance),
        disposition |->
          [ soldOnDex |-> [ amount |-> st.soldOnDexAmount,
                            percentage |-> Percentage(st.soldOnDexAmount, totalOut),
                            txCount |-> st.soldOnDexCount,
                            dexes |-> st.dexNames ],
            sentToWallets |-> [ amount |-> st.sentToWalletsAmount,
                                percentage |-> Percentage(st.sentToWalletsAmount, totalOut),
                                recipients |-> Recipients(st.recipientMap, transfers,
                                                          contractSet, balances) ],
            sentToContracts |-> [ amount |-> sentToContractsAmount,
                                  percentage |-> Percentage(sentToContractsAmount, totalOut) ],
            burnedOrLost |-> [ amount |-> st.burnedAmount,
                               percentage |-> Percentage(st.burnedAmount, totalOut) ] ],
        isGhost |-> IsGhost(st.peakBalance, currentBalance) ]

\* reconstructWalletHistory(wallet, transfers, tokenDecimals, contractSet, balances)
reconstructWalletHistory(wallet, transfers, contractSet, balances) ==
  BuildHistory(wallet,
               Replay(WalletTxs(transfers, ToLower(wallet)), ToLower(wallet), contractSet),
               transfers, contractSet, balances)

(* ------------------------------------------------------------------ *)
(* Token origin tracing                                               *)
(* ------------------------------------------------------------------ *)

RECURSIVE LargestIncoming(_)
\* The largest single incoming transfer: the first one, in array order, that
\* is strictly larger than every one before it.
LargestIncoming(incoming) ==
  IF incoming = <<>> THEN [amount |-> 0, source |-> "", ts |-> 0]
  ELSE LET best == LargestIncoming(Front(incoming))
           tx == incoming[Len(incoming)]
       IN  IF JsGt(Amount(tx), best.amount)
             THEN [amount |-> Amount(tx), source |-> ToLower(tx.from), ts |-> Ts(tx)]
             ELSE best

\* Whether the largest source has a transfer to or from the target.
SourceConnected(transfers, largestSource, target) ==
  \E i \in 1..Len(transfers) :
    \/ ToLower(transfers[i].from) = largestSource /\ ToLower(transfers[i].to) = target
    \/ ToLower(transfers[i].to) = largestSource /\ ToLower(transfers[i].from) = target

\* The share a bucket must reach: targetPct >= 0.7 and so on.
OriginShareNum == 7
OriginShareDen == 10

\* The classification of the three incoming totals.
ClassifyOrigin(fromTarget, fromDex, fromThirdParty) ==
  LET total == JsAdd(JsAdd(fromTarget, fromDex), fromThirdParty)
  IN  IF total = 0 THEN "unknown"
      ELSE IF RatioGe(fromTarget, total, OriginShareNum, OriginShareDen) THEN "from-target"
      ELSE IF RatioGe(fromDex, total, OriginShareNum, OriginShareDen) THEN "from-dex"
      ELSE IF RatioGe(fromThirdParty, total, OriginShareNum, OriginShareDen)
        THEN "from-third-party"
      ELSE "mixed"

\* traceTokenOrigin(walletAddr, target, transfers, contractSet, decimals).
\* details keeps the kind of explanatory text, not its formatted amounts.
traceTokenOrigin(walletAddr, target, transfers, contractSet) ==
  LET addr == ToLower(walletAddr)
      incoming == SelectSeq(transfers, LAMBDA tx : ToLower(tx.to) = addr)
      fromTarget == SumAmounts(SelectSeq(incoming, LAMBDA tx : ToLower(tx.from) = target))
      fromDex == SumAmounts(SelectSeq(incoming,
                   LAMBDA tx : ToLower(tx.from) # target /\ ToLower(tx.from) \in contractSet))
      fromThirdParty == SumAmounts(SelectSeq(incoming,
                   LAMBDA tx : ToLower(tx.from) # target /\ ToLower(tx.from) \notin contractSet))
      largest == LargestIncoming(incoming)
      origin == ClassifyOrigin(fromTarget, fromDex, fromThirdParty)
  IN  IF incoming = <<>>
        THEN [origin |-> "unknown", details |-> "No incoming transfers found in scan data"]
      ELSE IF origin = "unknown"
        THEN [origin |-> "unknown", details |-> "Zero-value transfers only"]
      ELSE IF origin = "from-target"
        THEN [origin |-> origin, details |-> "Received directly from target"]
      ELSE IF origin = "from-dex"
        THEN [origin |-> origin, details |-> "Acquired from DEX/contracts"]
      ELSE IF origin = "from-third-party"
        THEN [origin |-> origin,
              details |-> IF SourceConnected(transfers, largest.source, target)
                            THEN "intermediary pattern"
                            ELSE "Received from third-party"]
      ELSE [origin |-> origin, details |-> "Mixed sources"]

(* ------------------------------------------------------------------ *)
(* The graph the deep-scan route builds from the transfers            *)
(* ------------------------------------------------------------------ *)

RECURSIVE Dedupe(_)
\* The elements of s in the order of their first appearance.
Dedupe(s) ==
  IF s = <<>> THEN <<>>
  ELSE LET rest == Dedupe(Front(s))
       IN  IF s[Len(s)] \in Range(rest) THEN rest ELSE Append(rest, s[Len(s)])

\* The addresses of the transfers, the sender of each before its receiver.
EndpointSeq(transfers) ==
  [i \in 1..(2 * Len(transfers)) |->
     IF i % 2 = 1 THEN ToLower(transfers[(i + 1) \div 2].from)
                  ELSE ToLower(transfers[i \div 2].to)]

\* buildGraph(...).nodes, with the balances the route copies into them.  A
\* null balance is the empty sequence, a known balance b is <<b>>.
BuildNodes(transfers, targetWallet, graphContracts, balances) ==
  LET ids == Dedupe(EndpointSeq(transfers))
  IN  [i \in 1..Len(ids) |->
        [ id |-> ids[i],
          address |-> ids[i],
          isTarget |-> ids[i] = ToLower(targetWallet),
          isContract |-> ids[i] \in graphContracts \/ ids[i] \in DOMAIN KNOWN_CONTRACTS,
          balance |-> IF ids[i] \in DOMAIN balances THEN <<balances[ids[i]]>> ELSE <<>> ]]

\* buildGraph(...).links: one link per ordered pair, carrying the summed value.
BuildLinks(transfers) ==
  LET keys == Dedupe([i \in 1..Len(transfers) |->
                        <<ToLower(transfers[i].from), ToLower(transfers[i].to)>>])
  IN  [i \in 1..Len(keys) |->
        [ source |-> keys[i][1],
          target |-> keys[i][2],
          value |-> SumAmounts(SelectSeq(transfers,
                      LAMBDA tx : <<ToLower(tx.from), ToLower(tx.to)>> = keys[i])) ]]

(* ------------------------------------------------------------------ *)
(* Helper functions of analyzeHoldings                                *)
(* ------------------------------------------------------------------ *)

\* The window of detectSequentialSends, in seconds.
SequentialWindow == 120

\* The loop state of detectSequentialSends after the transfers of txs.
RECURSIVE SequentialLoop(_, _)
SequentialLoop(txs, target) ==
  IF txs = <<>> THEN [groups |-> <<>>, currentGroup |-> <<>>, lastTs |-> 0]
  ELSE LET st == SequentialLoop(Front(txs), target)
           tx == txs[Len(txs)]
           to == ToLower(tx.to)
           ts == Ts(tx)
       IN  IF to = target THEN st
           ELSE IF st.lastTs > 0 /\ ts - st.lastTs < SequentialWindow
             THEN [st EXCEPT !.currentGroup = SetAdd(@, to), !.lastTs = ts]
             ELSE [ groups |-> IF Len(st.currentGroup) >= 2
                                THEN Append(st.groups, st.currentGroup)
                                ELSE st.groups,
                    currentGroup |-> <<to>>,
                    lastTs |-> ts ]

\* A detection that keeps the runs of a single recipient as groups too, for
\* comparison.
detectSequentialSendsAnySize(sortedTargetSentTxs, target) ==
  LET st == SequentialLoop(sortedTargetSentTxs, target)
  IN  IF Len(st.currentGroup) >= 1 THEN Append(st.groups, st.currentGroup) ELSE st.groups

\* detectSequentialSends(sortedTargetSentTxs, target)
detectSequentialSends(sortedTargetSentTxs, target) ==
  LET st == SequentialLoop(sortedTargetSentTxs, target)
  IN  IF Len(st.currentGroup) >= 2 THEN Append(st.groups, st.currentGroup) ELSE st.groups

\* The window of checkTimingCorrelation, in seconds.
TimingWindow == 300

\* A timing test that counts the pairs of one direction too, for comparison.
checkTimingAnyDirection(peerTxs, target) ==
  LET sorted == SortByTs(peerTxs)
      rapidPairs == Cardinality({i \in 2..Len(sorted) :
                      Ts(sorted[i]) - Ts(sorted[i - 1]) < TimingWindow})
  IN  IF Len(peerTxs) < 2 THEN 0
      ELSE IF rapidPairs >= 3 THEN 15
      ELSE IF rapidPairs >= 2 THEN 10
      ELSE IF rapidPairs >= 1 THEN 5
      ELSE 0

\* checkTimingCorrelation(peerTxs, target)
checkTimingCorrelation(peerTxs, target) ==
  LET sorted == SortByTs(peerTxs)
      Dir(tx) == IF ToLower(tx.from) = target THEN "sent" ELSE "received"
      rapidPairs == Cardinality({i \in 2..Len(sorted) :
                      /\ Ts(sorted[i]) - Ts(sorted[i - 1]) < TimingWindow
                      /\ Dir(sorted[i - 1]) # Dir(sorted[i])})
  IN  IF Len(peerTxs) < 2 THEN 0
      ELSE IF rapidPairs >= 3 THEN 15
      ELSE IF rapidPairs >= 2 THEN 10
      ELSE IF rapidPairs >= 1 THEN 5
      ELSE 0

\* An activity test that counts the transfers with the target too, for
\* comparison.
checkAnyActivity(walletAddr, target, transfers) ==
  \E i \in 1..Len(transfers) :
    ToLower(walletAddr) \in {ToLower(transfers[i].from), ToLower(transfers[i].to)}

\* checkOtherActivity(walletAddr, target, transfers)
checkOtherActivity(walletAddr, target, transfers) ==
  LET addr == ToLower(walletAddr)
  IN  \E i \in 1..Len(transfers) :
        \/ ToLower(transfers[i].from) = addr /\ ToLower(transfers[i].to) # target
        \/ ToLower(transfers[i].to) = addr /\ ToLower(transfers[i].from) # target

(* ------------------------------------------------------------------ *)
(* analyzeHoldings                                                    *)
(* ------------------------------------------------------------------ *)

\* fundingSources[addr] ?? null, the funding map being the sequence of its
\* <<wallet, funder>> entries in insertion order; "" stands for null.
FundingOf(fundingSources, addr) ==
  IF \E i \in 1..Len(fundingSources) : fundingSources[i][1] = addr
    THEN fundingSources[CHOOSE i \in 1..Len(fundingSources) : fundingSources[i][1] = addr][2]
    ELSE ""

RECURSIVE FundingClusters(_)
\* fundingClusters: funder (lower case) -> the wallets it funded, as the
\* sequence of the Map's entries.
FundingClusters(fundingSources) ==
  IF fundingSources = <<>> THEN <<>>
  ELSE LET m == FundingClusters(Front(fundingSources))
           e == fundingSources[Len(fundingSources)]
           funderLower == ToLower(e[2])
           old == IF \E i \in 1..Len(m) : m[i][1] = funderLower
                    THEN m[CHOOSE i \in 1..Len(m) : m[i][1] = funderLower][2]
                    ELSE <<>>
       IN  MapSet(m, funderLower, Append(old, ToLower(e[1])))

\* fundingClusters.get(funder), the empty sequence standing for undefined.
ClusterOf(fundingClusters, funderLower) ==
  IF \E i \in 1..Len(fundingClusters) : fundingClusters[i][1] = funderLower
    THEN fundingClusters[CHOOSE i \in 1..Len(fundingClusters) :
                           fundingClusters[i][1] = funderLower][2]
    ELSE <<>>

\* walletTransfers.get(addr) || []: the transfers between the target and addr.
PeerTxs(transfers, target, addr) ==
  SelectSeq(transfers,
    LAMBDA tx : /\ ToLower(tx.from) = target \/ ToLower(tx.to) = target
                /\ addr = IF ToLower(tx.from) = target THEN ToLower(tx.to)
                                                     ELSE ToLower(tx.from))

\* A lookup that takes the last link into addr from any source, for comparison.
SentLinkFromAnyone(links, target, addr) ==
  LET hits == SelectSeq(links, LAMBDA l : l.target = addr)
  IN  IF hits = <<>> THEN <<>> ELSE <<hits[Len(hits)]>>

\* sentToMap.get(addr): the last link from the target to addr, <<>> if none.
SentLink(links, target, addr) ==
  LET hits == SelectSeq(links, LAMBDA l : l.source = target /\ l.target = addr)
  IN  IF hits = <<>> THEN <<>> ELSE <<hits[Len(hits)]>>

\* recvFromMap.get(addr): the last link from addr to the target, <<>> if none.
RecvLink(links, target, addr) ==
  LET hits == SelectSeq(links, LAMBDA l : l.target = target /\ l.source = addr)
  IN  IF hits = <<>> THEN <<>> ELSE <<hits[Len(hits)]>>

\* link?.value ?? 0
LinkValue(link) == IF link = <<>> THEN 0 ELSE link[1].value

\* targetSentTxs: the target's outgoing transfers in chronological order.
TargetSentTxs(transfers, target) ==
  SortByTs(SelectSeq(transfers, LAMBDA tx : ToLower(tx.from) = target))

\* A pass-through test that admits exactly 70% and exactly 30%, for
\* comparison.
PassThroughTargetAtBoundary(ghost) ==
  LET recips == ghost.disposition.sentToWallets.recipients
      totalSentToWallets == ghost.disposition.sentToWallets.amount
  IN  IF /\ Len(recips) > 0
         /\ JsGt(totalSentToWallets, 0)
         /\ RatioGe(recips[1].amountReceived, totalSentToWallets, 7, 10)
         /\ recips[1].currentBalance * 10 >= recips[1].amountReceived * 3
        THEN <<recips[1].address>>
        ELSE <<>>

\* The pass-through test on one ghost history: <<final holder>> when the
\* ghost is a pass-through wallet, <<>> otherwise.
PassThroughTarget(ghost) ==
  LET recips == ghost.disposition.sentToWallets.recipients
      totalSentToWallets == ghost.disposition.sentToWallets.amount
  IN  IF /\ Len(recips) > 0
         /\ JsGt(totalSentToWallets, 0)
         /\ RatioGt(recips[1].amountReceived, totalSentToWallets, 7, 10)
         /\ GtScaled(recips[1].currentBalance, recips[1].amountReceived, 3, 10)
        THEN <<recips[1].address>>
        ELSE <<>>

\* passThroughTargets: ghost -> final holder, over the pass-through wallets.
PassThroughTargets(ghostWallets) ==
  LET pt == {i \in 1..Len(ghostWallets) : PassThroughTarget(ghostWallets[i]) # <<>>}
  IN  [a \in {ToLower(ghostWallets[i].address) : i \in pt} |->
        PassThroughTarget(ghostWallets[
          CHOOSE i \in pt : ToLower(ghostWallets[i].address) = a
                             /\ \A j \in pt : ToLower(ghostWallets[j].address) = a => j <= i])[1]]

\* The admission threshold of the wallet list.
AdmissionScore == 15

\* The confidence thresholds.
HighScore == 60
MediumScore == 35

\* A tier rule with the HIGH threshold moved to 70, for comparison.
ConfidenceOfHighFrom70(score) ==
  IF score >= 70 THEN "high" ELSE IF score >= 35 THEN "medium" ELSE "low"

\* The tier a score gives.
ConfidenceOf(score) ==
  IF score >= HighScore THEN "high" ELSE IF score >= MediumScore THEN "medium" ELSE "low"

\* r.includes(needle) for the reason texts of the scorer.
ReasonIncludes(r, needle) ==
  CASE needle = "Shared funding" -> r = "Shared funding source"
    [] needle = "still holding" ->
         r \in {"Received tokens and still holding",
                "Pass-through: moved all tokens to holder (still holding)"}
    [] needle = "Bidirectional" -> r = "Bidirectional transfers with target"
    [] OTHER -> FALSE

\* One fired heuristic: score += points; reasons.push(reason).
Fired(cond, reason, points) ==
  IF cond THEN <<[reason |-> reason, points |-> points]>> ELSE <<>>

RECURSIVE SumPoints(_)
SumPoints(fired) ==
  IF fired = <<>> THEN 0 ELSE SumPoints(Front(fired)) + fired[Len(fired)].points

\* Heuristic 7's intermediary test: some transfer touches the wallet and a
\* transfer with another hash touches the target.
IntermediaryConnected(transfers, target, addr) ==
  \E i \in 1..Len(transfers) :
    /\ ToLower(transfers[i].from) = addr \/ ToLower(transfers[i].to) = addr
    /\ \E j \in 1..Len(transfers) :
         /\ transfers[j].hash # transfers[i].hash
         /\ ToLower(transfers[j].from) = target \/ ToLower(transfers[j].to) = target

\* A test that reads an unknown balance as a positive one, for comparison.
HoldsBalanceOrUnknown(node) == node.balance = <<>> \/ JsGt(node.balance[1], 0)

\* node.balance !== null && node.balance > 0
HoldsBalance(node) == node.balance # <<>> /\ JsGt(node.balance[1], 0)

\* The share of totalSent sold on DEX that counts as a sell-off (sellPct >= 0.9).
SellOffNum == 9
SellOffDen == 10

\* A shared gas funder heuristic that does not look at the reasons pushed so
\* far, for comparison.
ClusterHeuristicAlways(reasonsSoFar, walletFundingSource, cluster) ==
  Fired(walletFundingSource # "" /\ Len(cluster) >= 2, "Shared gas funder", 20)

\* Heuristic 2, second half: the shared gas funder, skipped when a reason
\* pushed so far includes 'Shared funding'.
ClusterHeuristic(reasonsSoFar, walletFundingSource, cluster) ==
  Fired(/\ walletFundingSource # ""
        /\ Len(cluster) >= 2
        /\ ~\E i \in 1..Len(reasonsSoFar) :
              ReasonIncludes(reasonsSoFar[i].reason, "Shared funding"),
        "Shared gas funder", 20)

\* Heuristic 7: the token origin bonus or penalty.
OriginHeuristic(node, target, transfers, tokenOrigin) ==
  IF tokenOrigin = "from-target" /\ HoldsBalance(node)
    THEN Fired(TRUE, "Tokens received directly from target and held", 20)
  ELSE IF tokenOrigin = "from-dex"
    THEN Fired(TRUE, "Tokens acquired from DEX", -30)
  ELSE IF tokenOrigin = "from-third-party"
    THEN Fired(IntermediaryConnected(transfers, target, node.id),
               "Received via intermediary connected to target", 15)
  ELSE <<>>

\* A sell-off heuristic that penalises whatever the funding source, for
\* comparison.
SellOffAlwaysPenalised(history, hasSameFunder) ==
  IF /\ JsGt(history.totalSent, 0)
     /\ RatioGe(history.disposition.soldOnDex.amount, history.totalSent,
                SellOffNum, SellOffDen)
    THEN Fired(TRUE, "Sold 90%+ on DEX", -15)
    ELSE <<>>

\* Heuristic 9: the sell-off penalty, or the wash-sale note that adds nothing.
SellOffHeuristic(history, hasSameFunder) ==
  IF /\ JsGt(history.totalSent, 0)
     /\ RatioGe(history.disposition.soldOnDex.amount, history.totalSent,
                SellOffNum, SellOffDen)
    THEN IF ~hasSameFunder
           THEN Fired(TRUE, "Sold 90%+ on DEX", -15)
           ELSE Fired(TRUE, "Sold 90%+ on DEX but shares funding source", 0)
    ELSE <<>>

\* Heuristics 1 and 2, first half: bidirectional transfers, shared funding.
FirstHeuristics(sentLink, recvLink, hasSameFunder) ==
  Fired(sentLink # <<>> /\ recvLink # <<>>, "Bidirectional transfers with target", 30)
    \o Fired(hasSameFunder, "Shared funding source", 25)

\* The heuristics fired for one wallet node, in the order of the code, from
\* the values the loop body reads: peerTxs, the two links, the traced origin,
\* the two funding sources and the timing score.
FiredWith(node, target, transfers, fundingSources, sequentialWallets, history, passThrough, peerTxs, sentLink, recvLink, tokenOrigin, hasSameFunder, timingScore) ==
  FirstHeuristics(sentLink, recvLink, hasSameFunder)
    \o ClusterHeuristic(FirstHeuristics(sentLink, recvLink, hasSameFunder),
                        FundingOf(fundingSources, node.id),
                        ClusterOf(FundingClusters(fundingSources),
                                  ToLower(FundingOf(fundingSources, node.id))))
    \o Fired(timingScore > 0, "Rapid transfer timing (< 5 min windows)", timingScore)
    \o Fired(node.id \in sequentialWallets, "Sequential send pattern from target", 10)
    \o Fired(sentLink # <<>> /\ HoldsBalance(node), "Received tokens and still holding", 10)
    \o Fired(~checkOtherActivity(node.id, target, transfers) /\ Len(peerTxs) > 0,
             "No token activity with anyone else", 10)
    \o OriginHeuristic(node, target, transfers, tokenOrigin)
    \o Fired(node.id \in DOMAIN passThrough,
             "Pass-through: moved all tokens to holder (still holding)", 20)
    \o SellOffHeuristic(history, hasSameFunder)

\* walletFundingSource && targetFundingSource && both equal in lower case
HasSameFunder(fundingSources, target, addr) ==
  /\ FundingOf(fundingSources, addr) # ""
  /\ FundingOf(fundingSources, target) # ""
  /\ ToLower(FundingOf(fundingSources, addr)) = ToLower(FundingOf(fundingSources, target))

\* The heuristics fired for one wallet node.
FiredHeuristics(node, target, transfers, fundingSources, sequentialWallets, history, passThrough, peerTxs, sentLink, recvLink, tokenOrigin) ==
  FiredWith(node, target, transfers, fundingSources, sequentialWallets, history, passThrough,
            peerTxs, sentLink, recvLink, tokenOrigin,
            HasSameFunder(fundingSources, target, node.id),
            checkTimingCorrelation(peerTxs, target))

\* The smallest and the largest timestamp of peerTxs, 0 for none.
FirstInteraction(peerTxs) ==
  IF peerTxs = <<>> THEN 0
  ELSE CHOOSE t \in {Ts(peerTxs[i]) : i \in 1..Len(peerTxs)} :
         \A i \in 1..Len(peerTxs) : t <= Ts(peerTxs[i])

LastInteraction(peerTxs) ==
  IF peerTxs = <<>> THEN 0
  ELSE CHOOSE t \in {Ts(peerTxs[i]) : i \in 1..Len(peerTxs)} :
         \A i \in 1..Len(peerTxs) : t >= Ts(peerTxs[i])

\* The WalletScore pushed for one wallet node.  points keeps, beside each
\* reason, the amount it added to the score.
WalletScore(node, fired, peerTxs, sentLink, recvLink, origin, fundingSources) ==
  [ address |-> node.address,
    score |-> SumPoints(fired),
    reasons |-> [i \in 1..Len(fired) |-> fired[i].reason],
    points |-> [i \in 1..Len(fired) |-> fired[i].points],
    fundingSource |-> FundingOf(fundingSources, node.id),
    firstInteraction |-> FirstInteraction(peerTxs),
    lastInteraction |-> LastInteraction(peerTxs),
    transfersWithTarget |-> Len(peerTxs),
    netFlowFromTarget |-> JsSub(LinkValue(sentLink), LinkValue(recvLink)),
    balance |-> IF node.balance = <<>> THEN 0 ELSE node.balance[1],
    tokenOrigin |-> origin.origin,
    tokenOriginDetails |-> origin.details ]

\* The body of the scoring loop once peerTxs, the links and the origin are read.
ScoreWith(node, target, transfers, fundingSources, sequentialWallets, history, passThrough, peerTxs, sentLink, recvLink, origin) ==
  WalletScore(node,
              FiredHeuristics(node, target, transfers, fundingSources, sequentialWallets,
                              history, passThrough, peerTxs, sentLink, recvLink,
                              origin.origin),
              peerTxs, sentLink, recvLink, origin, fundingSources)

\* One iteration of the scoring loop: the WalletScore of one wallet node.
ScoreWallet(node, target, transfers, links, contractSet, fundingSources, sequentialWallets, history, passThrough) ==
  ScoreWith(node, target, transfers, fundingSources, sequentialWallets, history, passThrough,
            PeerTxs(transfers, target, node.id),
            SentLink(links, target, node.id),
            RecvLink(links, target, node.id),
            traceTokenOrigin(node.id, target, transfers, contractSet))

\* An insertion that leaves the scores in the order they were pushed, for
\* comparison.
InsertLast(sorted, e) == Append(sorted, e)

\* scores.sort((a, b) => b.score - a.score): stable, descending.
InsertByScoreDesc(sorted, e) ==
  LET k == Cardinality({i \in 1..Len(sorted) : sorted[i].score >= e.score})
  IN  SubSeq(sorted, 1, k) \o <<e>> \o SubSeq(sorted, k + 1, Len(sorted))

RECURSIVE SortByScoreDesc(_)
SortByScoreDesc(s) ==
  IF s = <<>> THEN <<>>
  ELSE InsertByScoreDesc(SortByScoreDesc(Front(s)), s[Len(s)])

\* The HiddenHoldingWallet of a WalletScore.  score and points are kept beside
\* the public fields so that properties can speak of them.
ToHiddenHoldingWallet(sc) ==
  [ address |-> sc.address,
    balance |-> sc.balance,
    confidence |-> ConfidenceOf(sc.score),
    reasons |-> sc.reasons,
    fundingSource |-> sc.fundingSource,
    firstInteraction |-> sc.firstInteraction,
    lastInteraction |-> sc.lastInteraction,
    transfersWithTarget |-> sc.transfersWithTarget,
    netFlowFromTarget |-> sc.netFlowFromTarget,
    tokenOrigin |-> sc.tokenOrigin,
    tokenOriginDetails |-> sc.tokenOriginDetails,
    score |-> sc.score,
    points |-> sc.points ]

\* wallets.find((fw) => fw.address.toLowerCase() === finalAddr): <<>> if none.
FindWallet(wallets, finalAddr) ==
  LET hits == {i \in 1..Len(wallets) : ToLower(wallets[i].address) = finalAddr}
  IN  IF hits = {} THEN <<>>
      ELSE <<wallets[CHOOSE i \in hits : \A j \in hits : i <= j]>>

\* An iteration that takes the holder's tier only when it is above the
\* wallet's own, for comparison.
InheritHigherConfidence(wallets, i, passThrough) ==
  LET addr == ToLower(wallets[i].address)
      finalWallet == IF addr \in DOMAIN passThrough
                       THEN FindWallet(wallets, passThrough[addr])
                       ELSE <<>>
  IN  IF /\ finalWallet # <<>>
         /\ \/ finalWallet[1].confidence = "high"
            \/ finalWallet[1].confidence = "medium" /\ wallets[i].confidence = "low"
        THEN [wallets EXCEPT ![i].confidence = finalWallet[1].confidence]
        ELSE wallets

\* One iteration of the inheritance loop, on the wallet at index i.
InheritConfidence(wallets, i, passThrough) ==
  LET addr == ToLower(wallets[i].address)
      finalWallet == IF addr \in DOMAIN passThrough
                       THEN FindWallet(wallets, passThrough[addr])
                       ELSE <<>>
  IN  IF finalWallet # <<>> /\ finalWallet[1].confidence \in {"high", "medium"}
        THEN [wallets EXCEPT ![i].confidence = finalWallet[1].confidence]
        ELSE wallets

RECURSIVE InheritLoop(_, _, _)
\* The first k iterations of: for (const w of wallets) { ... w.confidence = ... }
InheritLoop(wallets, k, passThrough) ==
  IF k = 0 THEN wallets
  ELSE InheritConfidence(InheritLoop(wallets, k - 1, passThrough), k, passThrough)

RECURSIVE SumFieldByScore(_, _)
\* The sum over the wallets whose own score gives the tier, whatever
\* confidence they were left with, for comparison.
SumFieldByScore(wallets, tier) ==
  IF wallets = <<>> THEN 0
  ELSE LET w == wallets[Len(wallets)]
       IN  IF ConfidenceOf(w.score) = tier
             THEN JsAdd(SumFieldByScore(Front(wallets), tier), w.balance)
           ELSE SumFieldByScore(Front(wallets), tier)

RECURSIVE SumField(_, _)
\* wallets.reduce((s, w) => s + w.balance, 0) over the wallets of one tier.
SumField(wallets, tier) ==
  IF wallets = <<>> THEN 0
  ELSE LET w == wallets[Len(wallets)]
       IN  IF w.confidence = tier THEN JsAdd(SumField(Front(wallets), tier), w.balance)
           ELSE SumField(Front(wallets), tier)

(* ------------------------------------------------------------------ *)
(* Outbound summary and risk flags                                    *)
(* ------------------------------------------------------------------ *)

RECURSIVE RecipientAmounts(_)
\* recipientAmounts after the loop over the transfers of txs.
RecipientAmounts(txs) ==
  IF txs = <<>> THEN <<>>
  ELSE LET m == RecipientAmounts(Front(txs))
           tx == txs[Len(txs)]
       IN  MapSet(m, ToLower(tx.to), JsAdd(OrZero(MapGet(m, ToLower(tx.to))), Amount(tx)))

\* buildOutboundSummary(transfers, targetWallet, contractSet, decimals, balances)
buildOutboundSummary(transfers, targetWallet, contractSet, balances) ==
  LET target == ToLower(targetWallet)
      sent == SelectSeq(transfers, LAMBDA tx : ToLower(tx.from) = target)
      toDex == SelectSeq(sent, LAMBDA tx : ToLower(tx.to) \in contractSet)
      toWallet == SelectSeq(sent, LAMBDA tx : ToLower(tx.to) \notin contractSet)
      toDexAmount == SumAmounts(toDex)
      toWalletAmount == SumAmounts(toWallet)
      totalOut == JsAdd(JsAdd(toDexAmount, toWalletAmount), 0)
      top == Slice(SortByAmountDesc(RecipientAmounts(toWallet)), TopRecipients)
  IN  [ toDex |-> [ amount |-> toDexAmount,
                    percentage |-> Percentage(toDexAmount, totalOut),
                    txCount |-> Len(toDex) ],
        toWallets |-> [ amount |-> toWalletAmount,
                        percentage |-> Percentage(toWalletAmount, totalOut),
                        txCount |-> Len(toWallet) ],
        toContracts |-> [ amount |-> 0,
                          percentage |-> Percentage(0, totalOut),
                          txCount |-> 0 ],
        topRecipients |-> [i \in 1..Len(top) |->
                             [ address |-> top[i][1],
                               amount |-> top[i][2],
                               stillHolding |-> BalanceOf(balances, top[i][1]) ]] ]

\* Seven days, in seconds.
SevenDays == 604800

\* Math.abs
Abs(x) == IF x = NaN THEN NaN ELSE IF x < 0 THEN -x ELSE x

RECURSIVE SumNumbers(_)
\* reduce((s, x) => s + x, 0) over a sequence of numbers.
SumNumbers(xs) ==
  IF xs = <<>> THEN 0 ELSE JsAdd(SumNumbers(Front(xs)), xs[Len(xs)])

\* A risk flag: the rule that emitted it and the numbers its text names.
Flag(kind, count, amount) == [kind |-> kind, count |-> count, amount |-> amount]

\* The section of generateRiskFlags that reads the clock: the transfers the
\* target sent after sevenDaysAgo = floor(Date.now() / 1000) - 7 days.  The
\* code divides the raw value by 1e18 here, which is the whole-token amount
\* for the 18 decimals of the tokens the scan follows.
RecentDispersalFlag(targetSentTxs, now) ==
  LET sevenDaysAgo == now - SevenDays
      recent == SelectSeq(targetSentTxs, LAMBDA tx : Ts(tx) > sevenDaysAgo)
      recentAmount == SumAmounts(recent)
  IN  IF Len(recent) >= 2 /\ JsGt(recentAmount, 0)
        THEN <<Flag("Recent dispersal", Len(recent), recentAmount)>>
        ELSE <<>>

\* A flag for every group instead of the first one only, for comparison.
SplittingFlagPerGroup(sequentialGroups) ==
  LET splitting == SelectSeq(sequentialGroups, LAMBDA g : Len(g) >= 2)
  IN  [i \in 1..Len(splitting) |-> Flag("Wallet splitting detected", Len(splitting[i]), 0)]

\* for (const group of sequentialGroups) { if (group.length >= 2) { push; break } }
SplittingFlag(sequentialGroups) ==
  LET splitting == SelectSeq(sequentialGroups, LAMBDA g : Len(g) >= 2)
  IN  IF splitting # <<>>
        THEN <<Flag("Wallet splitting detected", Len(splitting[1]), 0)>> ELSE <<>>

\* generateRiskFlags(...), now being floor(Date.now() / 1000) at the call.
generateRiskFlags(wallets, targetSentTxs, sequentialGroups, fundingClusters, ghostWallets, passThrough, now) ==
  LET bidir == SelectSeq(wallets,
                 LAMBDA w : \E i \in 1..Len(w.reasons) :
                              ReasonIncludes(w.reasons[i], "Bidirectional"))
      cold == SelectSeq(wallets,
                LAMBDA w : /\ JsGt(w.balance, 0)
                           /\ \E i \in 1..Len(w.reasons) :
                                ReasonIncludes(w.reasons[i], "still holding"))
      clusters == SelectSeq(fundingClusters, LAMBDA e : Len(e[2]) >= 2)
      dexBuyers == SelectSeq(wallets, LAMBDA w : w.tokenOrigin = "from-dex")
  IN  SplittingFlag(sequentialGroups)
      \o (IF bidir # <<>>
            THEN <<Flag("Possible wash trading", Len(bidir),
                        SumNumbers([i \in 1..Len(bidir) |->
                                      Abs(bidir[i].netFlowFromTarget)]))>>
            ELSE <<>>)
      \o (IF cold # <<>> THEN <<Flag("Cold storage pattern", Len(cold), 0)>> ELSE <<>>)
      \o (IF clusters # <<>>
            THEN <<Flag("Shared funding source", Len(clusters[1][2]), 0)>> ELSE <<>>)
      \o (IF dexBuyers # <<>>
            THEN <<Flag("acquired from DEX", Len(dexBuyers),
                        SumNumbers([i \in 1..Len(dexBuyers) |-> dexBuyers[i].balance]))>>
            ELSE <<>>)
      \o (IF ghostWallets # <<>>
            THEN <<Flag("ghost wallet(s)", Len(ghostWallets),
                        SumNumbers([i \in 1..Len(ghostWallets) |->
                                      ghostWallets[i].peakBalance]))>>
            ELSE <<>>)
      \o (IF DOMAIN passThrough # {}
            THEN <<Flag("pass-through wallet(s)", Cardinality(DOMAIN passThrough), 0)>>
            ELSE <<>>)
      \o RecentDispersalFlag(targetSentTxs, now)

(* ------------------------------------------------------------------ *)
(* The report                                                         *)
(* ------------------------------------------------------------------ *)

\* A laxer admission test, for comparison: it lets in the wallets scoring 10.
AdmittedFrom10(sc) == sc.score >= 10

\* if (score >= 15) scores.push(...)
Admitted(sc) == sc.score >= AdmissionScore

\* targetNode?.balance ?? 0
TargetBalance(nodes, target) ==
  LET targetNodes == SelectSeq(nodes, LAMBDA n : n.id = target)
  IN  IF targetNodes = <<>> \/ targetNodes[1].balance = <<>>
        THEN 0 ELSE targetNodes[1].balance[1]

\* nodes.filter((n) => !n.isContract && !n.isTarget)
WalletNodes(nodes) == SelectSeq(nodes, LAMBDA n : ~n.isContract /\ ~n.isTarget)

\* sequentialWallets: the addresses of every sequential group.
SequentialWallets(sequentialGroups) ==
  UNION {Range(sequentialGroups[i]) : i \in 1..Len(sequentialGroups)}

\* walletHistories: one reconstructed history per wallet node.
WalletHistories(walletNodes, scanResult) ==
  [i \in 1..Len(walletNodes) |->
     reconstructWalletHistory(walletNodes[i].id, scanResult.transfers,
                              scanResult.detectedContracts, scanResult.balances)]

\* walletHistories.filter((h) => h.isGhost)
GhostWallets(walletHistories) == SelectSeq(walletHistories, LAMBDA h : h.isGhost)

\* The score of every wallet node, in node order, before the admission test.
AllScores(walletNodes, walletHistories, scanResult, target, fundingSources, sequentialWallets, passThrough) ==
  [i \in 1..Len(walletNodes) |->
     ScoreWallet(walletNodes[i], target, scanResult.transfers, scanResult.links,
                 scanResult.detectedContracts, fundingSources, sequentialWallets,
                 walletHistories[i], passThrough)]

\* scores.map(...): the admitted scores as HiddenHoldingWallet values.
ConvertScores(scores) == [i \in 1..Len(scores) |-> ToHiddenHoldingWallet(scores[i])]

\* The wallet list: admission, sort, conversion and the inheritance loop.
WalletList(allScores, passThrough) ==
  InheritLoop(ConvertScores(SortByScoreDesc(SelectSeq(allScores, Admitted))),
              Len(SelectSeq(allScores, Admitted)), passThrough)

\* The HoldingsReport, from the values analyzeHoldings has computed.  The
\* prose summary is left out, and so are the LP and staking totals, which the
\* deep-scan graph never carries.  allScores (every WalletScore, admitted or
\* not) and passThroughTargets are kept beside the fields of HoldingsReport
\* so that properties can speak of them.
HoldingsReport(scanResult, targetWallet, now, targetSentTxs, fundingClusters, walletHistories, passThrough, allScores, wallets) ==
  [ targetWallet |-> targetWallet,
    targetBalance |-> TargetBalance(scanResult.nodes, ToLower(targetWallet)),
    totalHeldByCluster |-> JsAdd(SumField(wallets, "high"), SumField(wallets, "medium")),
    totalPossibleHidden |-> SumField(wallets, "low"),
    wallets |-> wallets,
    riskFlags |-> generateRiskFlags(wallets, targetSentTxs,
                                    detectSequentialSends(targetSentTxs, ToLower(targetWallet)),
                                    fundingClusters, GhostWallets(walletHistories),
                                    passThrough, now),
    outboundSummary |-> buildOutboundSummary(scanResult.transfers, targetWallet,
                                             scanResult.detectedContracts,
                                             scanResult.balances),
    walletHistories |-> walletHistories,
    ghostWallets |-> GhostWallets(walletHistories),
    allScores |-> allScores,
    passThroughTargets |-> passThrough ]

\* analyzeHoldings from the scoring loop on.
AnalyzeScores(scanResult, targetWallet, fundingSources, now, walletNodes, targetSentTxs, walletHistories, passThrough, allScores) ==
  HoldingsReport(scanResult, targetWallet, now, targetSentTxs,
                 FundingClusters(fundingSources), walletHistories, passThrough, allScores,
                 WalletList(allScores, passThrough))

\* analyzeHoldings from the pass-through detection on.
AnalyzePassThrough(scanResult, targetWallet, fundingSources, now, walletNodes, targetSentTxs, walletHistories, passThrough) ==
  AnalyzeScores(scanResult, targetWallet, fundingSources, now, walletNodes, targetSentTxs,
                walletHistories, passThrough,
                AllScores(walletNodes, walletHistories, scanResult, ToLower(targetWallet),
                          fundingSources,
                          SequentialWallets(detectSequentialSends(targetSentTxs,
                                                                  ToLower(targetWallet))),
                          passThrough))

\* analyzeHoldings from the history reconstruction on.
AnalyzeHistories(scanResult, targetWallet, fundingSources, now, walletNodes, targetSentTxs, walletHistories) ==
  AnalyzePassThrough(scanResult, targetWallet, fundingSources, now, walletNodes,
                     targetSentTxs, walletHistories,
                     PassThroughTargets(GhostWallets(walletHistories)))

\* analyzeHoldings once the wallet nodes and the target's sends are known.
AnalyzeNodes(scanResult, targetWallet, fundingSources, now, walletNodes, targetSentTxs) ==
  AnalyzeHistories(scanResult, targetWallet, fundingSources, now, walletNodes, targetSentTxs,
                   WalletHistories(walletNodes, scanResult))

\* analyzeHoldings(scanResult, targetWallet, tokenSymbol, fundingSources) run
\* when floor(Date.now() / 1000) = now.
analyzeHoldings(scanResult, targetWallet, fundingSources, now) ==
  AnalyzeNodes(scanResult, targetWallet, fundingSources, now,
               WalletNodes(scanResult.nodes),
               TargetSentTxs(scanResult.transfers, ToLower(targetWallet)))

(* ------------------------------------------------------------------ *)
(* The deep scan as a state machine                                   *)
(* ------------------------------------------------------------------ *)

VARIABLES
  transfers,       \* allTransfers: the transfer events fetched so far
  balances,        \* the balance map of the scan: address -> amount held
  fundingSources,  \* the funding map: the sequence of <<wallet, funder>> entries
  now,             \* floor(Date.now() / 1000)
  reports,         \* the reports of the calls of analyzeHoldings on this scan
  histories,       \* the calls of reconstructWalletHistory made on their own
  origins          \* the calls of traceTokenOrigin made on their own

vars == <<transfers, balances, fundingSources, now, reports, histories, origins>>

\* The longest transfer list of a scan.
MaxTransfers == 3

\* The largest amount of one transfer, in whole tokens.
MaxAmount == 1

\* The largest balance an address holds.
MaxBalance == 1

\* The explorer lists the newest transfer first: its timestamp, and the gap to
\* the transfer before it.
NewestTimestamp == 2000
TimestampGap == 100

\* The contracts detectContracts reports for a scan.
DetectedContracts == {Pair}

\* The ordered pairs of addresses transfers of a scan go between.
ScanPairs ==
  { <<Target, W1>>, <<Target, W2>>, <<W1, Target>>, <<W2, Target>>,
    <<W1, W2>>, <<W2, W1>>, <<Pair, W1>>, <<W1, Pair>> }

\* The balance maps of a scan: each wallet unknown, empty or holding.
ScanBalances ==
  UNION { [S -> 0..MaxBalance] : S \in SUBSET {W1, W2} }

\* The funding maps of a scan.
ScanFunding ==
  { <<>>,
    << <<Target, "f1">>, <<W1, "F1">>, <<W2, "f1">> >>,
    << <<Target, "f1">>, <<W1, "f2">>, <<W2, "f2">> >> }

\* The scan result the route hands to analyzeHoldings.
ScanResult ==
  [ nodes |-> BuildNodes(transfers, Target, DetectedContracts \cup DOMAIN KNOWN_CONTRACTS,
                         balances),
    links |-> BuildLinks(transfers),
    transfers |-> transfers,
    balances |-> balances,
    detectedContracts |-> DetectedContracts ]

Init ==
  /\ transfers = <<>>
  /\ balances \in ScanBalances
  /\ fundingSources \in ScanFunding
  /\ now = NewestTimestamp + TimestampGap
  /\ reports = <<>>
  /\ histories = <<>>
  /\ origins = <<>>

\* One more transfer event arrives from the explorer.
FetchTransfer ==
  /\ reports = <<>>
  /\ Len(transfers) < MaxTransfers
  /\ \E p \in ScanPairs, v \in 0..MaxAmount :
       transfers' = Append(transfers,
                      [ hash |-> Len(transfers) + 1, from |-> p[1], to |-> p[2], value |-> v,
                        timeStamp |-> NewestTimestamp - Len(transfers) * TimestampGap ])
  /\ UNCHANGED <<balances, fundingSources, now, reports, histories, origins>>

\* The route calls analyzeHoldings on the scan.
Analyze ==
  /\ reports = <<>>
  /\ reports' = <<analyzeHoldings(ScanResult, Target, fundingSources, now)>>
  /\ UNCHANGED <<transfers, balances, fundingSources, now, histories, origins>>

Next == FetchTransfer \/ Analyze

Spec == Init /\ [][Next]_vars

(* ------------------------------------------------------------------ *)
(* Tracing the origin of one wallet's tokens                          *)
(* ------------------------------------------------------------------ *)

\* The longest transfer list traceTokenOrigin is run on.
MaxOriginTransfers == 3

\* The largest amount of one of these transfers: 7 of 10 is a share of 0.70.
MaxOriginAmount == 7

\* The transfers of the traced wallet W1: incoming from the target, from a
\* detected contract and from another wallet, and one outgoing.
OriginPairs == { <<Target, W1>>, <<Pair, W1>>, <<W2, W1>>, <<W1, Target>> }

InitOrigin ==
  /\ transfers = <<>>
  /\ balances = <<>>
  /\ fundingSources = <<>>
  /\ now = NewestTimestamp + TimestampGap
  /\ reports = <<>>
  /\ histories = <<>>
  /\ origins = <<>>

\* One more transfer of the scan data.
FetchOriginTransfer ==
  /\ origins = <<>>
  /\ Len(transfers) < MaxOriginTransfers
  /\ \E p \in OriginPairs, v \in 0..MaxOriginAmount :
       transfers' = Append(transfers,
                      [ hash |-> Len(transfers) + 1, from |-> p[1], to |-> p[2], value |-> v,
                        timeStamp |-> NewestTimestamp - Len(transfers) * TimestampGap ])
  /\ UNCHANGED <<balances, fundingSources, now, reports, histories, origins>>

\* The scoring loop traces the origin of W1's tokens.
TraceOrigin ==
  /\ origins = <<>>
  /\ origins' = <<traceTokenOrigin(W1, Target, transfers, DetectedContracts)>>
  /\ UNCHANGED <<transfers, balances, fundingSources, now, reports, histories>>

NextOrigin == FetchOriginTransfer \/ TraceOrigin

SpecOrigin == InitOrigin /\ [][NextOrigin]_vars

\* The positions of the transfers that come into W1 from a sender of senders.
IncomingFrom(senders) ==
  {i \in 1..Len(transfers) : transfers[i].to = W1 /\ transfers[i].from \in senders}

RECURSIVE ValueOf(_)
\* The summed value of the transfers at the positions of S.
ValueOf(S) ==
  IF S = {} THEN 0
  ELSE LET i == CHOOSE j \in S : TRUE IN transfers[i].value + ValueOf(S \ {i})

FromTargetValue == ValueOf(IncomingFrom({Target}))
FromContractsValue == ValueOf(IncomingFrom(DetectedContracts \ {Target}))
FromOthersValue == ValueOf(IncomingFrom({W1, W2, W3} \ DetectedContracts))
IncomingValue == FromTargetValue + FromContractsValue + FromOthersValue

\* C4: with an incoming transfer and a positive incoming total, the origin is
\* from-target iff the target's share is at least 0.70, else from-dex iff the
\* contracts' share is at least 0.70, else from-third-party iff the share of
\* the other senders is at least 0.70, else mixed; with no incoming transfer
\* or a zero incoming total the origin is unknown.
C4_OriginByShare ==
  \A k \in 1..Len(origins) :
    origins[k].origin =
      IF IncomingFrom({Target, Pair, W1, W2, W3}) = {} \/ IncomingValue = 0 THEN "unknown"
      ELSE IF 10 * FromTargetValue >= 7 * IncomingValue THEN "from-target"
      ELSE IF 10 * FromContractsValue >= 7 * IncomingValue THEN "from-dex"
      ELSE IF 10 * FromOthersValue >= 7 * IncomingValue THEN "from-third-party"
      ELSE "mixed"

\* The origin has been traced for a wallet that got exactly 0.70 of a positive
\* incoming total from the target.
C4_Witness ==
  /\ origins # <<>>
  /\ IncomingValue > 0
  /\ 10 * FromTargetValue = 7 * IncomingValue
  /\ origins[1].origin = "from-target"

(* ------------------------------------------------------------------ *)
(* Reconstructing the history of one wallet                           *)
(* ------------------------------------------------------------------ *)

\* The longest transfer list reconstructWalletHistory is run on.
MaxHistoryTransfers == 3

\* The number of calls of reconstructWalletHistory followed.
MaxRuns == 2

\* The transfers around the wallet W1: what it receives, what it sends to a
\* wallet, a detected contract, a DEX router and the zero address, a transfer
\* to itself, and a transfer that does not touch it.
HistoryPairs ==
  { <<Target, W1>>, <<W1, W2>>, <<W1, Pair>>, <<W1, Router>>, <<W1, ZeroAddr>>,
    <<W1, W1>>, <<Target, W2>> }

\* The balance maps: W1 unknown, empty or holding.
HistoryBalances == UNION { [S -> 0..MaxBalance] : S \in SUBSET {W1} }

InitHistory ==
  /\ transfers = <<>>
  /\ balances \in HistoryBalances
  /\ fundingSources = <<>>
  /\ now = NewestTimestamp + TimestampGap
  /\ reports = <<>>
  /\ histories = <<>>
  /\ origins = <<>>

\* One more transfer of the scan data, before the first reconstruction.
FetchHistoryTransfer ==
  /\ histories = <<>>
  /\ Len(transfers) < MaxHistoryTransfers
  /\ \E p \in HistoryPairs, v \in 0..MaxAmount :
       transfers' = Append(transfers,
                      [ hash |-> Len(transfers) + 1, from |-> p[1], to |-> p[2], value |-> v,
                        timeStamp |-> NewestTimestamp - Len(transfers) * TimestampGap ])
  /\ UNCHANGED <<balances, fundingSources, now, reports, histories, origins>>

\* A call reconstructWalletHistory(W1, transfers, decimals, contractSet,
\* balances).  The call is recorded with its arguments as they were before
\* it; the arrays it was handed are left as the call leaves them.
Reconstruct ==
  /\ Len(histories) < MaxRuns
  /\ histories' = Append(histories,
                     [ transfers |-> transfers,
                       balances |-> balances,
                       history |-> reconstructWalletHistory(W1, transfers, DetectedContracts,
                                                            balances),
                       transfersAfter |-> FilterThenSort(transfers, ToLower(W1)).transfers,
                       balancesAfter |-> balances ])
  /\ transfers' = FilterThenSort(transfers, ToLower(W1)).transfers
  /\ UNCHANGED <<balances, fundingSources, now, reports, origins>>

NextHistory == FetchHistoryTransfer \/ Reconstruct

SpecHistory == InitHistory /\ [][NextHistory]_vars

(* ------------------------------------------------------------------ *)
(* Reconstructing a history again after the scan has grown            *)
(* ------------------------------------------------------------------ *)

\* The longest transfer list of a growing scan.
MaxExpandTransfers == 3

\* How many gaps before the newest timestamp a transfer may lie.
MaxAge == 2

\* What W1 receives and what it sends to a wallet, a contract and the zero
\* address.
ExpandPairs == { <<Target, W1>>, <<W1, W2>>, <<W1, Pair>>, <<W1, ZeroAddr>> }

\* The timestamps of the transfers: a transfer fetched later may be older
\* than, as old as or newer than one fetched before.
ExpandTimes == { NewestTimestamp - k * TimestampGap : k \in 0..MaxAge }

InitExpand ==
  /\ transfers = <<>>
  /\ balances = <<>>
  /\ fundingSources = <<>>
  /\ now = NewestTimestamp + TimestampGap
  /\ reports = <<>>
  /\ histories = <<>>
  /\ origins = <<>>

\* allTransfers = allTransfers.concat(txs): one more transfer behind those
\* fetched so far, before or after a reconstruction.
FetchExpansionTransfer ==
  /\ Len(histories) < MaxRuns
  /\ Len(transfers) < MaxExpandTransfers
  /\ \E p \in ExpandPairs, v \in 0..MaxAmount, t \in ExpandTimes :
       transfers' = Append(transfers,
                      [ hash |-> Len(transfers) + 1, from |-> p[1], to |-> p[2], value |-> v,
                        timeStamp |-> t ])
  /\ UNCHANGED <<balances, fundingSources, now, reports, histories, origins>>

NextExpand == FetchExpansionTransfer \/ Reconstruct

SpecExpand == InitExpand /\ [][NextExpand]_vars

(* ------------------------------------------------------------------ *)
(* Ghost wallets of a scan                                            *)
(* ------------------------------------------------------------------ *)

\* The longest transfer list of a ghost scan.
MaxGhostTransfers == 3

\* The larger of the two amounts a transfer of a ghost scan moves: with the
\* amount 1 it lets a wallet peak at 99, at 100 and above.
LargeAmount == 99

\* The largest balance a wallet of a ghost scan still holds.
MaxGhostBalance == 2

GhostAmounts == {1, LargeAmount}

GhostPairs ==
  { <<Target, W1>>, <<Target, W2>>, <<W1, W2>>, <<W1, Pair>>, <<W2, Target>> }

\* The balance maps: no balance known, or one for both wallets.
GhostBalances == {<<>>} \cup [{W1, W2} -> 0..MaxGhostBalance]

\* The funding maps: none known, or W2 funded by the funder of the target
\* and W1 by another.
GhostFunding == { <<>>, << <<Target, "f1">>, <<W1, "F2">>, <<W2, "f1">> >> }

InitGhost ==
  /\ transfers = <<>>
  /\ balances \in GhostBalances
  /\ fundingSources \in GhostFunding
  /\ now = NewestTimestamp + TimestampGap
  /\ reports = <<>>
  /\ histories = <<>>
  /\ origins = <<>>

\* One more transfer of the scan data, before the analysis.
FetchGhostTransfer ==
  /\ reports = <<>>
  /\ Len(transfers) < MaxGhostTransfers
  /\ \E p \in GhostPairs, v \in GhostAmounts :
       transfers' = Append(transfers,
                      [ hash |-> Len(transfers) + 1, from |-> p[1], to |-> p[2], value |-> v,
                        timeStamp |-> NewestTimestamp - Len(transfers) * TimestampGap ])
  /\ UNCHANGED <<balances, fundingSources, now, reports, histories, origins>>

NextGhost == FetchGhostTransfer \/ Analyze

SpecGhost == InitGhost /\ [][NextGhost]_vars

(* ------------------------------------------------------------------ *)
(* Analysing the same scan more than once                             *)
(* ------------------------------------------------------------------ *)

\* The number of invocations of analyzeHoldings followed.
MaxReports == 2

\* How many weeks the clock may advance.
MaxWeeks == 1

\* What the target sends and receives.
RerunPairs == { <<Target, W1>>, <<Target, W2>>, <<W1, Target>> }

InitRerun ==
  /\ transfers = <<>>
  /\ balances \in HistoryBalances
  /\ fundingSources = <<>>
  /\ now = NewestTimestamp + TimestampGap
  /\ reports = <<>>
  /\ histories = <<>>
  /\ origins = <<>>

\* One more transfer of the scan data, before the first analysis.
FetchRerunTransfer ==
  /\ reports = <<>>
  /\ Len(transfers) < MaxTransfers
  /\ \E p \in RerunPairs, v \in 0..MaxAmount :
       transfers' = Append(transfers,
                      [ hash |-> Len(transfers) + 1, from |-> p[1], to |-> p[2], value |-> v,
                        timeStamp |-> NewestTimestamp - Len(transfers) * TimestampGap ])
  /\ UNCHANGED <<balances, fundingSources, now, reports, histories, origins>>

\* Time passes: floor(Date.now() / 1000) is a week later.
Tick ==
  /\ now < NewestTimestamp + TimestampGap + MaxWeeks * SevenDays
  /\ now' = now + SevenDays
  /\ UNCHANGED <<transfers, balances, fundingSources, reports, histories, origins>>

\* An invocation of analyzeHoldings on the scan, at the present moment.
\* The scan, the target and the funding map are left as they are.
AnalyzeAgain ==
  /\ Len(reports) < MaxReports
  /\ reports' = Append(reports, analyzeHoldings(ScanResult, Target, fundingSources, now))
  /\ UNCHANGED <<transfers, balances, fundingSources, now, histories, origins>>

NextRerun == FetchRerunTransfer \/ Tick \/ AnalyzeAgain

SpecRerun == InitRerun /\ [][NextRerun]_vars

\* C6: analyzeHoldings is a function of its arguments alone.  No transfer is
\* fetched after the first invocation, so all invocations of a behaviour are
\* given the same scan result, target and funding map, and their reports,
\* risk flags included, are the same whenever each of them runs.
C6_SameInputsSameReport ==
  \A i, j \in 1..Len(reports) : reports[i] = reports[j]

(* ------------------------------------------------------------------ *)
(* Properties of a reconstructed history                              *)
(* ------------------------------------------------------------------ *)

\* The transfers of a list that leave W1: sent by it to another address.
\* (A transfer of W1 to itself arrives at W1, and the loop takes it as
\* incoming.)
OutgoingOf(txs) == SelectSeq(txs, LAMBDA tx : tx.from = W1 /\ tx.to # W1)

\* The transfers of a list that arrive at W1.
IncomingOf(txs) == SelectSeq(txs, LAMBDA tx : tx.to = W1)

RECURSIVE TotalValue(_)
\* The summed value of a list of transfers.
TotalValue(txs) ==
  IF txs = <<>> THEN 0 ELSE TotalValue(Front(txs)) + txs[Len(txs)].value

\* The outgoing transfers of a list by the kind of their destination.
OutgoingToBurn(txs) == SelectSeq(OutgoingOf(txs), LAMBDA tx : tx.to \in BURN_ADDRESSES)

OutgoingToDex(txs) ==
  SelectSeq(OutgoingOf(txs),
            LAMBDA tx : tx.to \notin BURN_ADDRESSES
                        /\ tx.to \in DEX_ROUTER_ADDRS \cup DetectedContracts)

OutgoingToWallets(txs) ==
  SelectSeq(OutgoingOf(txs),
            LAMBDA tx : tx.to \notin BURN_ADDRESSES \cup DEX_ROUTER_ADDRS \cup DetectedContracts)

\* Percentages are kept as exact fractions <<numerator, denominator>>, so
\* their sum is exact: the rounding of floating point is outside the model.
FracAdd(p, q) == <<p[1] * q[2] + q[1] * p[2], p[2] * q[2]>>

FracIs(p, n) == p[2] # 0 /\ p[1] = n * p[2]

PercentageSum(d) ==
  FracAdd(FracAdd(d.soldOnDex.percentage, d.sentToWallets.percentage),
          FracAdd(d.sentToContracts.percentage, d.burnedOrLost.percentage))

AmountSum(d) ==
  d.soldOnDex.amount + d.sentToWallets.amount + d.sentToContracts.amount
    + d.burnedOrLost.amount

\* The disposition of one run is closed over the outgoing transfers.
DispositionClosed(txs, h) ==
  /\ h.disposition.burnedOrLost.amount = TotalValue(OutgoingToBurn(txs))
  /\ h.disposition.soldOnDex.amount = TotalValue(OutgoingToDex(txs))
  /\ h.disposition.sentToWallets.amount = TotalValue(OutgoingToWallets(txs))
  /\ h.disposition.sentToContracts.amount = 0
  /\ AmountSum(h.disposition) = TotalValue(OutgoingOf(txs))
  /\ h.totalSent = TotalValue(OutgoingOf(txs))
  /\ IF TotalValue(OutgoingOf(txs)) > 0
       THEN FracIs(PercentageSum(h.disposition), 100)
       ELSE /\ FracIs(h.disposition.soldOnDex.percentage, 0)
            /\ FracIs(h.disposition.sentToWallets.percentage, 0)
            /\ FracIs(h.disposition.sentToContracts.percentage, 0)
            /\ FracIs(h.disposition.burnedOrLost.percentage, 0)

\* C5: in every reconstructed history each outgoing transfer of the wallet is
\* counted in exactly one disposition bucket (the bucket of its destination:
\* burn address, DEX router or contract, ordinary wallet), so the bucket
\* amounts add up to the total outbound amount; the four percentages sum to
\* 100 when that amount is positive and are all 0 when it is 0.
C5_DispositionClosure ==
  \A k \in 1..Len(histories) :
    DispositionClosed(histories[k].transfers, histories[k].history)

\* A history whose outgoing transfers fall into three different buckets.
C5_Witness ==
  \E k \in 1..Len(histories) :
    /\ histories[k].history.disposition.soldOnDex.amount > 0
    /\ histories[k].history.disposition.sentToWallets.amount > 0
    /\ histories[k].history.disposition.burnedOrLost.amount > 0

Extends(i, j) ==
  /\ i < j
  /\ Len(histories[i].transfers) < Len(histories[j].transfers)
  /\ SubSeq(histories[j].transfers, 1, Len(histories[i].transfers)) = histories[i].transfers
  /\ histories[i].balances = histories[j].balances

\* The transfers the run j has and the run i has not.
AddedTransfers(i, j) ==
  SubSeq(histories[j].transfers, Len(histories[i].transfers) + 1, Len(histories[j].transfers))

\* C9: a run on the transfers of an earlier run and more only adds:
\* totalReceived, totalSent and the amount of each disposition bucket are at
\* least what the earlier run computed.
C9_SupersetOnlyAdds ==
  \A i, j \in 1..Len(histories) :
    Extends(i, j) =>
      /\ histories[j].history.totalReceived >= histories[i].history.totalReceived
      /\ histories[j].history.totalSent >= histories[i].history.totalSent
      /\ histories[j].history.disposition.soldOnDex.amount
           >= histories[i].history.disposition.soldOnDex.amount
      /\ histories[j].history.disposition.sentToWallets.amount
           >= histories[i].history.disposition.sentToWallets.amount
      /\ histories[j].history.disposition.sentToContracts.amount
           >= histories[i].history.disposition.sentToContracts.amount
      /\ histories[j].history.disposition.burnedOrLost.amount
           >= histories[i].history.disposition.burnedOrLost.amount

\* A later run with two more transfers, one of them older than a transfer of
\* the earlier run, that received more and sent more than the earlier run.
C9_Witness ==
  \E i, j \in 1..Len(histories) :
    /\ Extends(i, j)
    /\ histories[i].history.totalReceived > 0
    /\ histories[j].history.totalReceived > histories[i].history.totalReceived
    /\ histories[j].history.totalSent > histories[i].history.totalSent
    /\ \E a \in 1..Len(AddedTransfers(i, j)), k \in 1..Len(histories[i].transfers) :
         AddedTransfers(i, j)[a].timeStamp < histories[i].transfers[k].timeStamp

NoOutgoingAddedBefore(i, j) ==
  \A a \in 1..Len(OutgoingOf(AddedTransfers(i, j))) :
    \A k \in 1..Len(WalletTxs(histories[i].transfers, W1)) :
      OutgoingOf(AddedTransfers(i, j))[a].timeStamp
        >= WalletTxs(histories[i].transfers, W1)[k].timeStamp

Listed(r) == {ToLower(r.wallets[i].address) : i \in 1..Len(r.wallets)}

\* C1: every wallet of the wallet list returned by analyzeHoldings has a summed
\* heuristic score of at least 15, and a wallet whose summed score is below 15,
\* negative scores included, is not listed.
C1_ScoreFloor ==
  \A k \in 1..Len(reports) :
    LET r == reports[k]
    IN  /\ \A i \in 1..Len(r.wallets) :
             /\ r.wallets[i].score = SumPoints([j \in 1..Len(r.wallets[i].points) |->
                                                 [points |-> r.wallets[i].points[j]]])
             /\ r.wallets[i].score >= 15
        /\ \A i \in 1..Len(r.allScores) :
             r.allScores[i].score < 15 => ToLower(r.allScores[i].address) \notin Listed(r)

\* A report that lists a wallet scoring exactly 15 and leaves out one wallet
\* with a negative score and one with a score between 0 and 14.
C1_Witness ==
  \E k \in 1..Len(reports) :
    LET r == reports[k]
    IN  /\ \E i \in 1..Len(r.wallets) : r.wallets[i].score = 15
        /\ \E i \in 1..Len(r.allScores) :
             /\ r.allScores[i].score < 0
             /\ ToLower(r.allScores[i].address) \notin Listed(r)

\* The tier the 60/35 thresholds give to a score.
TierOfScore(score) ==
  IF score >= 60 THEN "high" ELSE IF score >= 35 THEN "medium" ELSE "low"

\* LOW < MEDIUM < HIGH
TierRank(tier) == CASE tier = "high" -> 3 [] tier = "medium" -> 2 [] OTHER -> 1

\* The listed wallet with the address a, <<>> if there is none.
ListedWallet(r, a) == FindWallet(r.wallets, a)

\* The inheritance rule applies to the listed wallet w of the report r: w is a
\* pass-through ghost and its final holder is a listed HIGH or MEDIUM wallet.
InheritanceApplies(r, w) ==
  /\ ToLower(w.address) \in DOMAIN r.passThroughTargets
  /\ LET holder == ListedWallet(r, r.passThroughTargets[ToLower(w.address)])
     IN  holder # <<>> /\ holder[1].confidence \in {"high", "medium"}

\* C2: a listed wallet to which the pass-through inheritance rule does not
\* apply has exactly the tier of its score: HIGH from 60, MEDIUM from 35 to 59,
\* LOW from 15 to 34.
C2_TierByScore ==
  \A k \in 1..Len(reports) :
    \A i \in 1..Len(reports[k].wallets) :
      LET w == reports[k].wallets[i]
      IN  ~InheritanceApplies(reports[k], w) =>
            /\ w.score >= 60 => w.confidence = "high"
            /\ (35 <= w.score /\ w.score < 60) => w.confidence = "medium"
            /\ (15 <= w.score /\ w.score < 35) => w.confidence = "low"
            /\ w.score >= 15

\* A report that lists a pass-through ghost whose final holder is listed LOW,
\* so that the rule does not apply to it, beside a wallet of another tier.
C2_Witness ==
  \E k \in 1..Len(reports) :
    LET r == reports[k]
    IN  \E i \in 1..Len(r.wallets) :
          /\ ToLower(r.wallets[i].address) \in DOMAIN r.passThroughTargets
          /\ ~InheritanceApplies(r, r.wallets[i])
          /\ LET holder == ListedWallet(r, r.passThroughTargets[ToLower(r.wallets[i].address)])
             IN  holder # <<>> /\ holder[1].confidence = "low"
          /\ r.wallets[i].confidence = "medium"

\* C3: the confidence of a listed pass-through ghost is never below the tier
\* its own score gives.
C3_OverrideOnlyRaises ==
  \A k \in 1..Len(reports) :
    \A i \in 1..Len(reports[k].wallets) :
      LET w == reports[k].wallets[i]
      IN  ToLower(w.address) \in DOMAIN reports[k].passThroughTargets =>
            TierRank(w.confidence) >= TierRank(TierOfScore(w.score))

(* ------------------------------------------------------------------ *)
(* Properties of the ghost list                                       *)
(* ------------------------------------------------------------------ *)

\* The addresses of the scan that are neither a contract nor the target.
ScanWallets ==
  Range(EndpointSeq(transfers)) \ (DetectedContracts \cup DOMAIN KNOWN_CONTRACTS \cup {Target})

\* The addresses of a list of wallet histories.
HistoryAddresses(hs) == {ToLower(hs[i].address) : i \in 1..Len(hs)}

\* C8: a reconstructed history is a ghost exactly when its peak balance is
\* positive and its current balance is at most one percent of the peak; the
\* ghostWallets of the report are exactly the histories of the wallets of the
\* scan (neither contract nor target) that are ghosts, whatever the wallet
\* scores and whether or not it is in the wallet list.
C8_GhostByBalance ==
  \A k \in 1..Len(reports) :
    LET r == reports[k]
    IN  /\ \A i \in 1..Len(r.walletHistories) :
             r.walletHistories[i].isGhost
               <=> /\ r.walletHistories[i].peakBalance > 0
                   /\ 100 * r.walletHistories[i].currentBalance
                        <= r.walletHistories[i].peakBalance
        /\ HistoryAddresses(r.walletHistories) = ScanWallets
        /\ HistoryAddresses(r.ghostWallets)
             = {a \in ScanWallets :
                  reconstructWalletHistory(a, transfers, DetectedContracts, balances).isGhost}
        /\ \A i \in 1..Len(r.ghostWallets) :
             /\ r.ghostWallets[i].isGhost
             /\ r.ghostWallets[i]
                  = reconstructWalletHistory(r.ghostWallets[i].address, transfers,
                                             DetectedContracts, balances)
        /\ Len(r.ghostWallets) = Cardinality(HistoryAddresses(r.ghostWallets))

\* A report with a ghost that holds exactly one percent of its peak and is
\* not admitted to the wallet list.
C8_Witness ==
  /\ reports # <<>>
  /\ \E i \in 1..Len(reports[1].ghostWallets) :
       /\ reports[1].ghostWallets[i].currentBalance > 0
       /\ 100 * reports[1].ghostWallets[i].currentBalance
            = reports[1].ghostWallets[i].peakBalance
       /\ ToLower(reports[1].ghostWallets[i].address) \notin Listed(reports[1])

(* ------------------------------------------------------------------ *)
(* A wallet that received from the target and holds                   *)
(* ------------------------------------------------------------------ *)

\* The longest transfer list of the scan.
MaxHeldTransfers == 3

\* What the wallet W1 received from the target and holds, and half of it.
HeldAmount == 100
HalfAmount == 50

\* The seconds between two transfers that follow each other: inside and
\* outside the windows of the sequential and the timing heuristics.
ShortGap == 60
LongGap == 400

\* W1 receives from the target; W2 receives from the target and sends to it.
HeldPairs == { <<Target, W1>>, <<Target, W2>>, <<W2, Target>> }

\* W1 holds what it received; the balance of W2 is unknown, zero or positive.
HeldBalances ==
  { [a \in {W1} |-> HeldAmount] } \cup { [a \in {W1, W2} |-> IF a = W1 THEN HeldAmount ELSE b] : b \in {0, HeldAmount} }

\* The funding maps: empty, or the target and W2 by one funder; W1 has no entry.
HeldFunding == { <<>>, << <<Target, "f1">>, <<W2, "F1">> >> }

\* The timestamp of the next transfer fetched: the explorer lists the newest
\* first, so it lies a gap before the one fetched last.
OlderBy(gap) ==
  IF transfers = <<>> THEN NewestTimestamp ELSE transfers[Len(transfers)].timeStamp - gap

InitHeld ==
  /\ transfers = <<>>
  /\ balances \in HeldBalances
  /\ fundingSources \in HeldFunding
  /\ now = NewestTimestamp + TimestampGap
  /\ reports = <<>>
  /\ histories = <<>>
  /\ origins = <<>>

\* One more transfer of the scan data, before the analysis.
FetchHeldTransfer ==
  /\ reports = <<>>
  /\ Len(transfers) < MaxHeldTransfers
  /\ \E p \in HeldPairs, v \in {HalfAmount, HeldAmount}, gap \in {ShortGap, LongGap} :
       transfers' = Append(transfers,
                      [ hash |-> Len(transfers) + 1, from |-> p[1], to |-> p[2], value |-> v,
                        timeStamp |-> OlderBy(gap) ])
  /\ UNCHANGED <<balances, fundingSources, now, reports, histories, origins>>

NextHeld == FetchHeldTransfer \/ Analyze

SpecHeld == InitHeld /\ [][NextHeld]_vars

\* Scenario A for W1: no funding-source entry, every transfer of W1 comes in
\* from the target, they total HeldAmount, and W1 is known to hold HeldAmount.
ScenarioA ==
  /\ FundingOf(fundingSources, W1) = ""
  /\ WalletTxs(transfers, W1) # <<>>
  /\ \A i \in 1..Len(transfers) :
       W1 \in {transfers[i].from, transfers[i].to}
         => transfers[i].from = Target /\ transfers[i].to = W1
  /\ TotalValue(IncomingOf(transfers)) = HeldAmount
  /\ W1 \in DOMAIN balances /\ balances[W1] = HeldAmount

\* The WalletScore the report r computed for the address a: <<>> if none.
ScoreOf(r, a) == SelectSeq(r.allScores, LAMBDA sc : ToLower(sc.address) = a)

\* The three reasons of scenario A, in the order of the heuristics.
HeldReasons ==
  << "Received tokens and still holding", "No token activity with anyone else",
     "Tokens received directly from target and held" >>

\* The target sent to W1 and to another address less than SequentialWindow
\* apart, no other transfer sent by the target lying between the two.
SentBesideAnother ==
  \E i, j \in 1..Len(transfers) :
    /\ transfers[i].from = Target /\ transfers[j].from = Target
    /\ W1 \in {transfers[i].to, transfers[j].to}
    /\ transfers[i].to # transfers[j].to
    /\ transfers[i].to # Target /\ transfers[j].to # Target
    /\ transfers[i].timeStamp <= transfers[j].timeStamp
    /\ transfers[j].timeStamp - transfers[i].timeStamp < SequentialWindow

\* C11 as stated: the wallet of scenario A fires exactly received-then-held
\* (+10), isolated activity (+10) and the from-target-and-holding bonus
\* (+20), not bidirectional, has origin from-target, scores 40 and is listed
\* with confidence MEDIUM.
C11_ScenarioA ==
  \A k \in 1..Len(reports) :
    ScenarioA =>
      /\ Len(ScoreOf(reports[k], W1)) = 1
      /\ ScoreOf(reports[k], W1)[1].reasons = HeldReasons
      /\ ScoreOf(reports[k], W1)[1].points = <<10, 10, 20>>
      /\ ScoreOf(reports[k], W1)[1].score = 40
      /\ ScoreOf(reports[k], W1)[1].tokenOrigin = "from-target"
      /\ ListedWallet(reports[k], W1) # <<>>
      /\ ListedWallet(reports[k], W1)[1].confidence = "medium"

\* C11, amended: the wallet of scenario A has origin from-target, is listed
\* with confidence MEDIUM and never fires bidirectional.  It fires exactly
\* the three heuristics and scores 40 when the target sent to no other
\* address within the sequential window of a send to it; when the target
\* did, the sequential-send heuristic (+10) fires as well and it scores 50.
C11_ScenarioAUnlessSequential ==
  \A k \in 1..Len(reports) :
    ScenarioA =>
      /\ Len(ScoreOf(reports[k], W1)) = 1
      /\ ScoreOf(reports[k], W1)[1].tokenOrigin = "from-target"
      /\ ListedWallet(reports[k], W1) # <<>>
      /\ ListedWallet(reports[k], W1)[1].confidence = "medium"
      /\ IF SentBesideAnother
           THEN /\ ScoreOf(reports[k], W1)[1].reasons
                     = <<"Sequential send pattern from target">> \o HeldReasons
                /\ ScoreOf(reports[k], W1)[1].points = <<10, 10, 10, 20>>
                /\ ScoreOf(reports[k], W1)[1].score = 50
           ELSE /\ ScoreOf(reports[k], W1)[1].reasons = HeldReasons
                /\ ScoreOf(reports[k], W1)[1].points = <<10, 10, 20>>
                /\ ScoreOf(reports[k], W1)[1].score = 40

\* Scenario A analysed, the target having sent to another wallet as well,
\* but outside the sequential window: W1 scores 40.
C11_Witness ==
  /\ reports # <<>>
  /\ ScenarioA
  /\ ~SentBesideAnother
  /\ \E i \in 1..Len(transfers) : transfers[i].from = Target /\ transfers[i].to = W2
  /\ Len(IncomingOf(transfers)) = 2
  /\ ScoreOf(reports[1], W1)[1].score = 40

(* ------------------------------------------------------------------ *)
(* A wallet that never met the target                                 *)
(* ------------------------------------------------------------------ *)

\* Scenario B for W1: no funding-source entry, at least one transfer, every
\* transfer of W1 comes in from an address of the contract set, and none is
\* to or from the target.
ScenarioB ==
  /\ FundingOf(fundingSources, W1) = ""
  /\ WalletTxs(transfers, W1) # <<>>
  /\ \A i \in 1..Len(transfers) :
       W1 \in {transfers[i].from, transfers[i].to}
         => transfers[i].to = W1 /\ transfers[i].from \in DetectedContracts

\* The reasons of the heuristics that relate a wallet to the target.
TargetRelationReasons ==
  { "Bidirectional transfers with target", "Rapid transfer timing (< 5 min windows)",
    "Sequential send pattern from target", "Received tokens and still holding",
    "No token activity with anyone else",
    "Pass-through: moved all tokens to holder (still holding)" }

\* C12: the wallet of scenario B fires none of the heuristics that relate it
\* to the target (bidirectional, timing, sequential, received-then-held,
\* isolated activity, pass-through) and is not in the wallet list, whether or
\* not it holds a balance.
C12_ScenarioB ==
  \A k \in 1..Len(reports) :
    ScenarioB =>
      /\ Len(ScoreOf(reports[k], W1)) = 1
      /\ Range(ScoreOf(reports[k], W1)[1].reasons) \cap TargetRelationReasons = {}
      /\ ScoreOf(reports[k], W1)[1].score < AdmissionScore
      /\ W1 \notin Listed(reports[k])

\* Scenario B analysed with W1 holding a balance, beside a listed wallet.
C12_Witness ==
  /\ reports # <<>>
  /\ ScenarioB
  /\ W1 \in DOMAIN balances /\ balances[W1] > 0
  /\ TotalValue(IncomingOf(transfers)) > 0
  /\ ScoreOf(reports[1], W1)[1].tokenOrigin = "from-dex"
  /\ W2 \in Listed(reports[1])

(* ------------------------------------------------------------------ *)
(* The target dispersing to several wallets                           *)
(* ------------------------------------------------------------------ *)

\* The longest transfer list of a dispersal scan.
MaxDispersalTransfers == 5

\* The amount of every transfer of a dispersal scan.
DispersalAmount == 10

\* The target sends to three wallets and to itself.
DispersalPairs == { <<Target, W1>>, <<Target, W2>>, <<Target, W3>>, <<Target, Target>> }

InitDispersal ==
  /\ transfers = <<>>
  /\ balances = <<>>
  /\ fundingSources = <<>>
  /\ now = NewestTimestamp + TimestampGap
  /\ reports = <<>>
  /\ histories = <<>>
  /\ origins = <<>>

\* One more transfer of the scan data, before the analysis.
FetchDispersalTransfer ==
  /\ reports = <<>>
  /\ Len(transfers) < MaxDispersalTransfers
  /\ \E p \in DispersalPairs, gap \in {ShortGap, LongGap} :
       transfers' = Append(transfers,
                      [ hash |-> Len(transfers) + 1, from |-> p[1], to |-> p[2],
                        value |-> DispersalAmount, timeStamp |-> OlderBy(gap) ])
  /\ UNCHANGED <<balances, fundingSources, now, reports, histories, origins>>

NextDispersal == FetchDispersalTransfer \/ Analyze

SpecDispersal == InitDispersal /\ [][NextDispersal]_vars

\* The sequential-dispersal groups of the scan.
DispersalGroups == detectSequentialSends(TargetSentTxs(transfers, Target), Target)

\* The wallet-splitting flags of a report.
SplittingFlags(r) ==
  SelectSeq(r.riskFlags, LAMBDA f : f.kind = "Wallet splitting detected")

\* Scenario C: the scan is three sends of the target, to W1, W2 and W3, each
\* less than SequentialWindow after the one before.
ScenarioC ==
  /\ Len(transfers) = 3
  /\ \A i \in 1..3 : transfers[i].from = Target
  /\ {transfers[i].to : i \in 1..3} = {W1, W2, W3}
  /\ \A i \in 1..2 : transfers[i].timeStamp - transfers[i + 1].timeStamp < SequentialWindow

\* C13: when at least one sequential-dispersal group exists the report has
\* exactly one wallet-splitting flag, however many groups there are, and it
\* names the size of the first group; in scenario C it names 3 wallets.
\* When no group exists the report has no wallet-splitting flag.
C13_OneSplittingFlag ==
  \A k \in 1..Len(reports) :
    /\ IF DispersalGroups # <<>>
         THEN /\ Len(SplittingFlags(reports[k])) = 1
              /\ SplittingFlags(reports[k])[1].count = Len(DispersalGroups[1])
         ELSE SplittingFlags(reports[k]) = <<>>
    /\ ScenarioC => /\ Len(SplittingFlags(reports[k])) = 1
                     /\ SplittingFlags(reports[k])[1].count = 3

\* A report on a scan with two groups of different sizes.
C13_Witness ==
  /\ reports # <<>>
  /\ Len(DispersalGroups) = 2
  /\ Len(DispersalGroups[1]) = 2
  /\ Len(DispersalGroups[2]) = 3

(* ------------------------------------------------------------------ *)
(* A ghost that passed its tokens along                               *)
(* ------------------------------------------------------------------ *)

\* The longest transfer list of the scan.
MaxPassedTransfers == 3

\* What the ghost W1 received from the target, what it passed on to W2, and
\* what W2 still holds.
ReceivedAmount == 1000
PassedAmount == 950
HolderBalance == 900

\* The largest balance the ghost is left with: one percent of ReceivedAmount,
\* and one more.
MaxLeftover == 11

PassedPairs == { <<Target, W1>>, <<W1, W2>>, <<Target, W2>>, <<W2, Target>> }

\* W1 holds nothing, one percent of what it received, or just more; W2
\* holds HolderBalance.
PassedBalances ==
  { [a \in {W1, W2} |-> IF a = W1 THEN b ELSE HolderBalance] : b \in {0, MaxLeftover - 1, MaxLeftover} }

InitPassed ==
  /\ transfers = <<>>
  /\ balances \in PassedBalances
  /\ fundingSources \in ScanFunding
  /\ now = NewestTimestamp + TimestampGap
  /\ reports = <<>>
  /\ histories = <<>>
  /\ origins = <<>>

\* One more transfer of the scan data, before the analysis.
FetchPassedTransfer ==
  /\ reports = <<>>
  /\ Len(transfers) < MaxPassedTransfers
  /\ \E p \in PassedPairs, v \in {PassedAmount, ReceivedAmount} :
       transfers' = Append(transfers,
                      [ hash |-> Len(transfers) + 1, from |-> p[1], to |-> p[2], value |-> v,
                        timeStamp |-> NewestTimestamp - Len(transfers) * TimestampGap ])
  /\ UNCHANGED <<balances, fundingSources, now, reports, histories, origins>>

NextPassed == FetchPassedTransfer \/ Analyze

SpecPassed == InitPassed /\ [][NextPassed]_vars

\* Scenario D for the ghost W1 and the holder W2: W1 received ReceivedAmount
\* from the target and from nobody else, sent PassedAmount to W2 and nothing
\* else, holds at most one percent of what it received, and W2 holds
\* HolderBalance.
ScenarioD ==
  /\ \A i \in 1..Len(transfers) :
       /\ transfers[i].to = W1 => transfers[i].from = Target
       /\ transfers[i].from = W1 => transfers[i].to = W2
  /\ TotalValue(IncomingOf(transfers)) = ReceivedAmount
  /\ TotalValue(OutgoingOf(transfers)) = PassedAmount
  /\ 100 * balances[W1] <= ReceivedAmount
  /\ balances[W2] = HolderBalance

\* The positions of the pass-through reason among the reasons of a score.
PassThroughReasons(sc) ==
  {i \in 1..Len(sc.reasons) :
     sc.reasons[i] = "Pass-through: moved all tokens to holder (still holding)"}

\* C14: in scenario D the wallet W1 is classified ghost, is detected as
\* pass-through with final holder W2, receives the pass-through bonus of 20
\* once, and is listed with the confidence of W2 whenever W2 is listed as
\* HIGH or MEDIUM.
C14_ScenarioD ==
  \A k \in 1..Len(reports) :
    ScenarioD =>
      /\ W1 \in HistoryAddresses(reports[k].ghostWallets)
      /\ W1 \in DOMAIN reports[k].passThroughTargets
      /\ reports[k].passThroughTargets[W1] = W2
      /\ Len(ScoreOf(reports[k], W1)) = 1
      /\ Cardinality(PassThroughReasons(ScoreOf(reports[k], W1)[1])) = 1
      /\ \A i \in PassThroughReasons(ScoreOf(reports[k], W1)[1]) :
           ScoreOf(reports[k], W1)[1].points[i] = 20
      /\ ListedWallet(reports[k], W1) # <<>>
      /\ ListedWallet(reports[k], W2) # <<>>
           /\ ListedWallet(reports[k], W2)[1].confidence \in {"high", "medium"}
           => ListedWallet(reports[k], W1)[1].confidence
                = ListedWallet(reports[k], W2)[1].confidence

\* Scenario D analysed with W2 listed as MEDIUM and W1, whose own score is in
\* another tier, listed as MEDIUM after it.
C14_Witness ==
  /\ reports # <<>>
  /\ ScenarioD
  /\ ListedWallet(reports[1], W2) # <<>>
  /\ ListedWallet(reports[1], W2)[1].confidence = "medium"
  /\ ConfidenceOf(ListedWallet(reports[1], W1)[1].score) # "medium"
  /\ ListedWallet(reports[1], W1)[1].confidence = "medium"

(* ------------------------------------------------------------------ *)
(* The order of the wallet list                                       *)
(* ------------------------------------------------------------------ *)

\* The position of the address a among the scores of the report r.
ScorePosition(r, a) ==
  CHOOSE i \in 1..Len(r.allScores) : ToLower(r.allScores[i].address) = a

\* The listed wallet w carries the score the report computed for its address.
CarriesItsScore(r, w) ==
  /\ Len(ScoreOf(r, ToLower(w.address))) = 1
  /\ ScoreOf(r, ToLower(w.address))[1].score = w.score

\* C15: the wallet list of the report is in the order of non-increasing
\* score (wallets of equal score in the order they were scored), and the
\* confidence override leaves that order as the sort made it: the list holds
\* each admitted score once, at the place its score gives it.
C15_SortedByScore ==
  \A k \in 1..Len(reports) :
    /\ \A i, j \in 1..Len(reports[k].wallets) :
         i < j =>
           \/ reports[k].wallets[i].score > reports[k].wallets[j].score
           \/ /\ reports[k].wallets[i].score = reports[k].wallets[j].score
              /\ ScorePosition(reports[k], ToLower(reports[k].wallets[i].address))
                   < ScorePosition(reports[k], ToLower(reports[k].wallets[j].address))
    /\ \A i \in 1..Len(reports[k].wallets) : CarriesItsScore(reports[k], reports[k].wallets[i])
    /\ Len(reports[k].wallets) = Len(SelectSeq(reports[k].allScores, Admitted))

\* A report whose two listed wallets were scored in the other order, one of
\* them with a confidence the override gave it.
C15_Witness ==
  /\ reports # <<>>
  /\ Len(reports[1].wallets) = 2
  /\ reports[1].wallets[1].score > reports[1].wallets[2].score
  /\ ScorePosition(reports[1], ToLower(reports[1].wallets[1].address))
       > ScorePosition(reports[1], ToLower(reports[1].wallets[2].address))
  /\ \E i \in 1..2 :
       reports[1].wallets[i].confidence # ConfidenceOf(reports[1].wallets[i].score)

(* ------------------------------------------------------------------ *)
(* Scan data with amounts that are not numbers                         *)
(* ------------------------------------------------------------------ *)

MaxMalformedTransfers == 3

\* What the explorer may put in a transfer's value field.
MalformedValues == {0, 1, Unparseable}

MalformedPairs == { <<Target, W1>>, <<Pair, W1>>, <<W1, W2>>, <<W1, Pair>> }

InitMalformed ==
  /\ transfers = <<>>
  /\ balances = <<>>
  /\ fundingSources = <<>>
  /\ now = NewestTimestamp + TimestampGap
  /\ reports = <<>>
  /\ histories = <<>>
  /\ origins = <<>>

\* One more transfer of the scan data, newest first.
FetchMalformedTransfer ==
  /\ origins = <<>> /\ histories = <<>> /\ reports = <<>>
  /\ Len(transfers) < MaxMalformedTransfers
  /\ \E p \in MalformedPairs, v \in MalformedValues :
       transfers' = Append(transfers,
                      [ hash |-> Len(transfers) + 1, from |-> p[1], to |-> p[2], value |-> v,
                        timeStamp |-> NewestTimestamp - Len(transfers) * TimestampGap ])
  /\ UNCHANGED <<balances, fundingSources, now, reports, histories, origins>>

\* analyzeHoldings summarises what the target sent.
Summarise ==
  /\ reports = <<>>
  /\ reports' = <<[ transfers |-> transfers,
                    summary |-> buildOutboundSummary(transfers, Target, DetectedContracts,
                                                     balances) ]>>
  /\ UNCHANGED <<transfers, balances, fundingSources, now, histories, origins>>

NextMalformed == FetchMalformedTransfer \/ TraceOrigin \/ Reconstruct \/ Summarise

SpecMalformed == InitMalformed /\ [][NextMalformed]_vars

\* The scan data with every amount that is not a number replaced by 0.
UnparseableAsZero(txs) ==
  [i \in 1..Len(txs) |->
     IF txs[i].value = Unparseable THEN [txs[i] EXCEPT !.value = 0] ELSE txs[i]]

\* The numeric fields of a history: totals, peak, bucket amounts and percentages.
HistoryNumbers(h) ==
  << h.totalReceived, h.totalSent, h.peakBalance, h.netDisposed,
     h.disposition.soldOnDex.amount, h.disposition.soldOnDex.percentage,
     h.disposition.sentToWallets.amount, h.disposition.sentToWallets.percentage,
     h.disposition.sentToContracts.amount, h.disposition.sentToContracts.percentage,
     h.disposition.burnedOrLost.amount, h.disposition.burnedOrLost.percentage >>

\* The numeric fields of an outbound summary: bucket amounts and percentages.
SummaryNumbers(s) ==
  << s.toDex.amount, s.toDex.percentage, s.toWallets.amount, s.toWallets.percentage,
     s.toContracts.amount, s.toContracts.percentage >>

\* The totals, peak and bucket amounts of a history; a percentage is 0 unless
\* the total sent is a positive number, so it is never NaN.
HistoryAmounts(h) ==
  << h.totalReceived, h.totalSent, h.peakBalance, h.netDisposed,
     h.disposition.soldOnDex.amount, h.disposition.sentToWallets.amount,
     h.disposition.sentToContracts.amount, h.disposition.burnedOrLost.amount >>

SummaryAmounts(s) == << s.toDex.amount, s.toWallets.amount, s.toContracts.amount >>

NoNaN(numbers) == \A i \in 1..Len(numbers) : numbers[i] # NaN

\* C16: a transfer whose amount cannot be parsed as a number is treated as
\* amount 0: traceTokenOrigin, reconstructWalletHistory and buildOutboundSummary
\* return the same origin, totals, peak, bucket amounts and percentages as they
\* do when that amount is 0, and no returned numeric field is NaN.
C16_UnparseableAsZero ==
  /\ \A i \in 1..Len(origins) :
       origins[i].origin
         = traceTokenOrigin(W1, Target, UnparseableAsZero(transfers), DetectedContracts).origin
  /\ \A i \in 1..Len(histories) :
       /\ NoNaN(HistoryAmounts(histories[i].history))
       /\ HistoryNumbers(histories[i].history)
            = HistoryNumbers(reconstructWalletHistory(W1,
                               UnparseableAsZero(histories[i].transfers),
                               DetectedContracts, histories[i].balances))
  /\ \A i \in 1..Len(reports) :
       /\ NoNaN(SummaryAmounts(reports[i].summary))
       /\ SummaryNumbers(reports[i].summary)
            = SummaryNumbers(buildOutboundSummary(UnparseableAsZero(reports[i].transfers),
                               Target, DetectedContracts, balances))

(* ------------------------------------------------------------------ *)
(* Partial funding maps and unknown balances                           *)
(* ------------------------------------------------------------------ *)

MaxFundingTransfers == 2

FundingPairs == { <<Target, W1>>, <<W1, Target>>, <<Target, W2>> }

\* The first-funding addresses the explorer reports, in the case it reports
\* them.
Funders == {"f1", "F1", "f2"}

\* The entry of one address in a funding map: none, or one funder.
FundingEntries(addr) == {<<>>} \cup { << <<addr, f>> >> : f \in Funders }

\* The funding maps of a scan: any of the three addresses may have no entry.
PartialFunding ==
  { t \o a \o b : t \in FundingEntries(Target), a \in FundingEntries(W1),
                  b \in FundingEntries(W2) }

InitFunding ==
  /\ transfers = <<>>
  /\ balances \in ScanBalances
  /\ fundingSources \in PartialFunding
  /\ now = NewestTimestamp + TimestampGap
  /\ reports = <<>>
  /\ histories = <<>>
  /\ origins = <<>>

\* One more transfer of the scan data, newest first.
FetchFundingTransfer ==
  /\ reports = <<>>
  /\ Len(transfers) < MaxFundingTransfers
  /\ \E p \in FundingPairs, v \in 0..MaxAmount :
       transfers' = Append(transfers,
                      [ hash |-> Len(transfers) + 1, from |-> p[1], to |-> p[2], value |-> v,
                        timeStamp |-> NewestTimestamp - Len(transfers) * TimestampGap ])
  /\ UNCHANGED <<balances, fundingSources, now, reports, histories, origins>>

NextFunding == FetchFundingTransfer \/ Analyze

SpecFunding == InitFunding /\ [][NextFunding]_vars

\* The reasons of the two heuristics that read the balance of the node.
BalanceReasons ==
  { "Received tokens and still holding", "Tokens received directly from target and held" }

\* The reasons of the two heuristics that read the funding map.
FundingReasons == { "Shared funding source", "Shared gas funder" }

\* The positions of a reason among the reasons of a score.
ReasonAt(sc, reason) == {i \in 1..Len(sc.reasons) : sc.reasons[i] = reason}

\* C17: a wallet whose balance is unknown never receives the
\* received-then-held contribution nor the from-target-and-holding bonus; a
\* wallet with no entry in the funding map never receives the shared funding
\* source nor the shared funder cluster contribution; and no wallet receives
\* the shared funding source contribution when the target has no entry.
C17_UnknownIsNoValue ==
  \A k \in 1..Len(reports) : \A n \in 1..Len(reports[k].allScores) :
    LET sc == reports[k].allScores[n]
        addr == ToLower(sc.address)
    IN  /\ addr \notin DOMAIN balances
          => Range(sc.reasons) \cap BalanceReasons = {}
        /\ (\A i \in 1..Len(fundingSources) : fundingSources[i][1] # addr)
          => Range(sc.reasons) \cap FundingReasons = {}
        /\ (\A i \in 1..Len(fundingSources) : fundingSources[i][1] # Target)
          => "Shared funding source" \notin Range(sc.reasons)

\* W1 received from the target, its balance is unknown and it has no funding
\* entry, while W2, funded by the target's funder, gets the shared funding
\* source contribution.
C17_Witness ==
  /\ reports # <<>>
  /\ W1 \notin DOMAIN balances
  /\ FundingOf(fundingSources, W1) = ""
  /\ FundingOf(fundingSources, Target) # ""
  /\ Len(ScoreOf(reports[1], W1)) = 1
  /\ ScoreOf(reports[1], W1)[1].tokenOrigin = "from-target"
  /\ Len(ScoreOf(reports[1], W2)) = 1
  /\ "Shared funding source" \in Range(ScoreOf(reports[1], W2)[1].reasons)

\* Whether the funder of addr is, in lower case, the funder of the target.
FunderOfTarget(addr) ==
  \E i, j \in 1..Len(fundingSources) :
    /\ fundingSources[i][1] = addr /\ fundingSources[j][1] = Target
    /\ ToLower(fundingSources[i][2]) = ToLower(fundingSources[j][2])

\* The number of entries of the funding map whose funder is the funder of addr.
FundedBeside(addr) ==
  Cardinality({ j \in 1..Len(fundingSources) :
                  \E i \in 1..Len(fundingSources) :
                    /\ fundingSources[i][1] = addr
                    /\ ToLower(fundingSources[i][2]) = ToLower(fundingSources[j][2]) })

\* C18: a scored wallet whose funder is the target's funder receives +25 and
\* one 'Shared funding source' reason and never the +20 cluster contribution;
\* 'Shared gas funder' (+20) is recorded only when the +25 did not fire and the
\* wallet's funder funds at least 2 wallets of the funding map; no wallet
\* receives both.
C18_FundingExclusive ==
  \A k \in 1..Len(reports) : \A n \in 1..Len(reports[k].allScores) :
    LET sc == reports[k].allScores[n]
        addr == ToLower(sc.address)
        shared == ReasonAt(sc, "Shared funding source")
        cluster == ReasonAt(sc, "Shared gas funder")
    IN  /\ FunderOfTarget(addr)
          => /\ Cardinality(shared) = 1
             /\ \A i \in shared : sc.points[i] = 25
             /\ cluster = {}
        /\ cluster # {}
          => /\ Cardinality(cluster) = 1
             /\ \A i \in cluster : sc.points[i] = 20
             /\ shared = {}
             /\ FundedBeside(addr) >= 2
        /\ shared = {} \/ cluster = {}

\* W1 is funded by the target's funder, written in another case, which funds
\* W2 too: W1 gets the shared funding source reason although its cluster has
\* three wallets.
C18_Witness ==
  /\ reports # <<>>
  /\ FunderOfTarget(W1)
  /\ FundingOf(fundingSources, W1) # FundingOf(fundingSources, Target)
  /\ FundedBeside(W1) = 3
  /\ Len(ScoreOf(reports[1], W1)) = 1
  /\ ReasonAt(ScoreOf(reports[1], W1)[1], "Shared funding source") # {}

(* ------------------------------------------------------------------ *)
(* Ghost wallets at the thresholds of the pass-through test            *)
(* ------------------------------------------------------------------ *)

MaxThroughTransfers == 3

\* Amounts that put a recipient at exactly 70% (7 of 7 + 3) and above it.
ThroughAmounts == {3, 7, 10}

\* Balances of a final holder: none, exactly 30% of 10, and above it.
HolderBalances == {0, 3, 4}

ThroughPairs == { <<Target, W1>>, <<W1, W2>>, <<W1, W3>>, <<W1, Pair>>, <<W2, W3>> }

\* The balance maps: W1 empty or not, W2 and W3 holding what HolderBalances
\* allows.
ThroughBalances ==
  { (W1 :> a) @@ (W2 :> b) @@ (W3 :> c) : a \in {0, 1}, b \in HolderBalances, c \in {0, 4} }

InitThrough ==
  /\ transfers = <<>>
  /\ balances \in ThroughBalances
  /\ fundingSources = <<>>
  /\ now = NewestTimestamp + TimestampGap
  /\ reports = <<>>
  /\ histories = <<>>
  /\ origins = <<>>

\* One more transfer of the scan data, newest first.
FetchThroughTransfer ==
  /\ reports = <<>>
  /\ Len(transfers) < MaxThroughTransfers
  /\ \E p \in ThroughPairs, v \in ThroughAmounts :
       transfers' = Append(transfers,
                      [ hash |-> Len(transfers) + 1, from |-> p[1], to |-> p[2], value |-> v,
                        timeStamp |-> NewestTimestamp - Len(transfers) * TimestampGap ])
  /\ UNCHANGED <<balances, fundingSources, now, reports, histories, origins>>

NextThrough == FetchThroughTransfer \/ Analyze

SpecThrough == InitThrough /\ [][NextThrough]_vars

\* The total amount the transfers move from a to x.
SentTo(a, x) ==
  TotalValue(SelectSeq(transfers, LAMBDA tx : tx.from = a /\ tx.to = x))

\* The amount a sent to wallets: to addresses that are neither a contract nor
\* a itself.
SentToWallets(a) ==
  TotalValue(SelectSeq(transfers,
    LAMBDA tx : tx.from = a /\ tx.to # a /\ tx.to \notin DetectedContracts))

\* x received strictly more than 70% of what a sent to wallets and holds
\* strictly more than 30% of what it received from a.
HoldsFor(a, x) ==
  /\ x # a /\ x \notin DetectedContracts
  /\ SentToWallets(a) > 0
  /\ 10 * SentTo(a, x) > 7 * SentToWallets(a)
  /\ 10 * BalanceOf(balances, x) > 3 * SentTo(a, x)

\* The addresses of the transfers.
ThroughAddresses == {Target, W1, W2, W3, Pair}

\* C19: a wallet is marked pass-through, with the edge to its top recipient,
\* iff it is a ghost wallet, it sent a positive amount to wallets, its top
\* wallet-recipient received strictly more than 70% of that amount, and that
\* recipient's current balance is strictly more than 30% of what it received
\* from the ghost; exactly 70% or exactly 30% does not qualify, and only the
\* top recipient is examined.
C19_PassThroughIff ==
  \A k \in 1..Len(reports) :
    /\ DOMAIN reports[k].passThroughTargets
         = { a \in HistoryAddresses(reports[k].ghostWallets) :
               \E x \in ThroughAddresses : HoldsFor(a, x) }
    /\ \A a \in DOMAIN reports[k].passThroughTargets :
         HoldsFor(a, reports[k].passThroughTargets[a])

\* The ghost W1 sent 7 to W2 and 3 to W3, exactly 70% to its top recipient,
\* which holds more than 30% of the 7: W1 is not marked pass-through.
C19_Witness ==
  /\ reports # <<>>
  /\ W1 \in HistoryAddresses(reports[1].ghostWallets)
  /\ SentTo(W1, W2) = 7 /\ SentTo(W1, W3) = 3
  /\ balances[W2] = 3 /\ balances[W3] = 4
  /\ W1 \notin DOMAIN reports[1].passThroughTargets

(* ------------------------------------------------------------------ *)
(* Tokens handed back and forth                                        *)
(* ------------------------------------------------------------------ *)

MaxReturnTransfers == 4

\* The amount of every transfer of such a scan.
ReturnAmount == 10

\* The target and W1 send to each other, W1 and W2 send to each other.
ReturnPairs == { <<Target, W1>>, <<W1, Target>>, <<W1, W2>>, <<W2, W1>> }

\* getTokenBalanceBatch is asked for every node that is not a contract, the
\* target included.
ReturnBalances ==
  { (Target :> t) @@ (W1 :> a) @@ (W2 :> b) : t \in {0, 4}, a \in {0, 4}, b \in {0, 4} }

InitReturn ==
  /\ transfers = <<>>
  /\ balances \in ReturnBalances
  /\ fundingSources = <<>>
  /\ now = NewestTimestamp + TimestampGap
  /\ reports = <<>>
  /\ histories = <<>>
  /\ origins = <<>>

\* One more transfer of the scan data, newest first.
FetchReturnTransfer ==
  /\ reports = <<>>
  /\ Len(transfers) < MaxReturnTransfers
  /\ \E p \in ReturnPairs :
       transfers' = Append(transfers,
                      [ hash |-> Len(transfers) + 1, from |-> p[1], to |-> p[2],
                        value |-> ReturnAmount,
                        timeStamp |-> NewestTimestamp - Len(transfers) * TimestampGap ])
  /\ UNCHANGED <<balances, fundingSources, now, reports, histories, origins>>

NextReturn == FetchReturnTransfer \/ Analyze

SpecReturn == InitReturn /\ [][NextReturn]_vars

\* C20: every wallet detected as pass-through received tokens from the target
\* in at least one transfer of the input set, and its recorded final holder is
\* a wallet other than the target.
C20_PassThroughFromTarget ==
  \A k \in 1..Len(reports) : \A a \in DOMAIN reports[k].passThroughTargets :
    /\ \E i \in 1..Len(transfers) :
         ToLower(transfers[i].from) = Target /\ ToLower(transfers[i].to) = a
    /\ reports[k].passThroughTargets[a] # Target

(* ------------------------------------------------------------------ *)
(* Properties of the scoring heuristics                                *)
(* ------------------------------------------------------------------ *)

\* Whether some transfer goes between the address src and the target.
TransactedWithTarget(src) ==
  \E i \in 1..Len(transfers) :
    \/ ToLower(transfers[i].from) = src /\ ToLower(transfers[i].to) = Target
    \/ ToLower(transfers[i].to) = src /\ ToLower(transfers[i].from) = Target

\* The addresses a wallet received from, other than the target.
ThirdPartySources(a) ==
  { ToLower(transfers[i].from) : i \in {j \in 1..Len(transfers) :
       ToLower(transfers[j].to) = a /\ ToLower(transfers[j].from) # Target} }

\* C21: the +15 intermediary bonus is given to a wallet of origin
\* from-third-party only when a third party it received from has a transfer
\* to or from the target; the bonus fires exactly when the details of
\* traceTokenOrigin carry the intermediary-pattern note.
C21_IntermediaryBonus ==
  \A k \in 1..Len(reports) : \A n \in 1..Len(reports[k].allScores) :
    LET sc == reports[k].allScores[n]
        bonus == "Received via intermediary connected to target" \in Range(sc.reasons)
    IN  /\ bonus => sc.tokenOrigin = "from-third-party"
        /\ bonus => \E src \in ThirdPartySources(ToLower(sc.address)) :
                      TransactedWithTarget(src)
        /\ bonus <=> sc.tokenOriginDetails = "intermediary pattern"

(* ------------------------------------------------------------------ *)
(* Wallets that sell what they received                                *)
(* ------------------------------------------------------------------ *)

MaxSellOffTransfers == 3

\* Amounts that put the sold share at exactly 90% (9 of 9 + 1) and below it.
SellOffAmounts == {1, 8, 9}

\* W1 receives from the target and sends to a pair, a router, a wallet and a
\* burn address.
SellOffPairs ==
  { <<Target, W1>>, <<W1, Pair>>, <<W1, Router>>, <<W1, W2>>, <<W1, DeadAddr>> }

InitSellOff ==
  /\ transfers = <<>>
  /\ balances = <<>>
  /\ fundingSources \in ScanFunding
  /\ now = NewestTimestamp + TimestampGap
  /\ reports = <<>>
  /\ histories = <<>>
  /\ origins = <<>>

\* One more transfer of the scan data, newest first.
FetchSellOffTransfer ==
  /\ reports = <<>>
  /\ Len(transfers) < MaxSellOffTransfers
  /\ \E p \in SellOffPairs, v \in SellOffAmounts :
       transfers' = Append(transfers,
                      [ hash |-> Len(transfers) + 1, from |-> p[1], to |-> p[2], value |-> v,
                        timeStamp |-> NewestTimestamp - Len(transfers) * TimestampGap ])
  /\ UNCHANGED <<balances, fundingSources, now, reports, histories, origins>>

NextSellOff == FetchSellOffTransfer \/ Analyze

SpecSellOff == InitSellOff /\ [][NextSellOff]_vars

\* Everything the address a sent, and what of it went to a DEX router or a
\* detected contract.
EverSent(a) ==
  TotalValue(SelectSeq(transfers, LAMBDA tx : ToLower(tx.from) = a /\ ToLower(tx.to) # a))

EverSold(a) ==
  TotalValue(SelectSeq(transfers,
    LAMBDA tx : /\ ToLower(tx.from) = a
                /\ ToLower(tx.to) \in DetectedContracts \cup DEX_ROUTER_ADDRS))

SoldNinetyPercent(a) == EverSent(a) > 0 /\ 10 * EverSold(a) >= 9 * EverSent(a)

\* C22: the sell-off heuristic subtracts 15 iff the wallet's totalSent is
\* positive, at least 90% of it went to DEX/contract destinations and the
\* wallet does not share its funding source with the target; when it shares
\* the funding source the heuristic adds nothing to the score and only the
\* wash-sale note is recorded.
C22_SellOffPenalty ==
  \A k \in 1..Len(reports) : \A n \in 1..Len(reports[k].allScores) :
    LET sc == reports[k].allScores[n]
        addr == ToLower(sc.address)
        penalty == ReasonAt(sc, "Sold 90%+ on DEX")
        washSale == ReasonAt(sc, "Sold 90%+ on DEX but shares funding source")
    IN  /\ penalty # {} <=> SoldNinetyPercent(addr) /\ ~FunderOfTarget(addr)
        /\ washSale # {} <=> SoldNinetyPercent(addr) /\ FunderOfTarget(addr)
        /\ Cardinality(penalty) <= 1 /\ Cardinality(washSale) <= 1
        /\ \A i \in penalty : sc.points[i] = -15
        /\ \A i \in washSale : sc.points[i] = 0
        /\ sc.score = SumPoints([i \in 1..Len(sc.points) |-> [points |-> sc.points[i]]])

\* W1 sold exactly 90% of what it sent and is penalised, its funder not being
\* the target's.
C22_Witness ==
  /\ reports # <<>>
  /\ EverSent(W1) = 10 /\ EverSold(W1) = 9
  /\ FundingOf(fundingSources, W1) # ""
  /\ ~FunderOfTarget(W1)
  /\ ReasonAt(ScoreOf(reports[1], W1)[1], "Sold 90%+ on DEX") # {}

(* ------------------------------------------------------------------ *)
(* Sends of the target at the edge of the sequential window            *)
(* ------------------------------------------------------------------ *)

MaxSequentialTransfers == 4

\* The target sends to two wallets and to itself.
SequentialPairs == { <<Target, W1>>, <<Target, W2>>, <<Target, Target>> }

\* The gaps between one transfer and the next: inside the window, and exactly
\* the window.
SequentialGaps == {ShortGap, SequentialWindow}

InitSequential ==
  /\ transfers = <<>>
  /\ balances = <<>>
  /\ fundingSources = <<>>
  /\ now = NewestTimestamp + TimestampGap
  /\ reports = <<>>
  /\ histories = <<>>
  /\ origins = <<>>

\* One more transfer of the scan data, before the analysis.
FetchSequentialTransfer ==
  /\ reports = <<>>
  /\ Len(transfers) < MaxSequentialTransfers
  /\ \E p \in SequentialPairs, gap \in SequentialGaps :
       transfers' = Append(transfers,
                      [ hash |-> Len(transfers) + 1, from |-> p[1], to |-> p[2],
                        value |-> DispersalAmount, timeStamp |-> OlderBy(gap) ])
  /\ UNCHANGED <<balances, fundingSources, now, reports, histories, origins>>

NextSequential == FetchSequentialTransfer \/ Analyze

SpecSequential == InitSequential /\ [][NextSequential]_vars

\* The positions of the transfers the target sent, and of those it sent to
\* another address than itself.
TargetSends == {i \in 1..Len(transfers) : transfers[i].from = Target}

TargetSendsToOthers == {i \in TargetSends : transfers[i].to # Target}

\* The sends i and j of the set S lie in one run: every two sends of S next
\* to each other in time, from the earlier of the two to the later, are less
\* than SequentialWindow apart.
InOneRun(S, i, j) ==
  LET lo == Min2(transfers[i].timeStamp, transfers[j].timeStamp)
      hi == IF transfers[i].timeStamp >= transfers[j].timeStamp
              THEN transfers[i].timeStamp ELSE transfers[j].timeStamp
      between == {m \in S : lo <= transfers[m].timeStamp /\ transfers[m].timeStamp <= hi}
  IN  \A m, n \in between :
        /\ transfers[m].timeStamp < transfers[n].timeStamp
        /\ ~\E x \in between : /\ transfers[m].timeStamp < transfers[x].timeStamp
                               /\ transfers[x].timeStamp < transfers[n].timeStamp
        => transfers[n].timeStamp - transfers[m].timeStamp < SequentialWindow

\* The wallet a is in a run of the sends of S that has another recipient.
InRunOfTwo(S, a) ==
  \E i, j \in S : transfers[i].to = a /\ transfers[j].to # a /\ InOneRun(S, i, j)

GotSequential(r, a) ==
  /\ Len(ScoreOf(r, a)) = 1
  /\ ReasonAt(ScoreOf(r, a)[1], "Sequential send pattern from target") # {}

\* C23 as stated: over the target's outgoing transfers in chronological
\* order, a send is grouped with the previous one iff they are less than 120
\* seconds apart, and a wallet receives the sequential-send contribution iff
\* it belongs to a maximal run of such sends with at least 2 distinct
\* recipients.
C23_SequentialRuns ==
  \A k \in 1..Len(reports) : \A a \in {W1, W2} :
    GotSequential(reports[k], a) <=> InRunOfTwo(TargetSends, a)

\* C23: the same over the target's outgoing transfers to other addresses
\* than itself, a transfer the target sends to itself being neither a member
\* of a run nor the previous send of any: a wallet receives +10 iff it is in
\* a maximal run of sends less than 120 seconds apart with at least 2
\* distinct recipients, each +10 once; a run to one recipient forms no group
\* and a gap of exactly 120 seconds starts a new run.
C23_SequentialRunsToOthers ==
  \A k \in 1..Len(reports) : \A a \in {W1, W2} :
    /\ GotSequential(reports[k], a) <=> InRunOfTwo(TargetSendsToOthers, a)
    /\ Len(ScoreOf(reports[k], a)) = 1 =>
         LET at == ReasonAt(ScoreOf(reports[k], a)[1], "Sequential send pattern from target")
         IN  Cardinality(at) <= 1 /\ \A i \in at : ScoreOf(reports[k], a)[1].points[i] = 10

\* The target sent three times to W2 inside the window and, exactly 120
\* seconds after the last of them, to W1: the run to W2 has one recipient,
\* the gap starts a new run, and neither wallet gets the contribution.
C23_Witness ==
  /\ reports # <<>>
  /\ Len(transfers) = 4
  /\ \A i \in 1..4 : transfers[i].to # Target
  /\ transfers[1].to = W1 /\ transfers[2].to = W2 /\ transfers[3].to = W2
  /\ transfers[4].to = W2
  /\ transfers[1].timeStamp - transfers[2].timeStamp = SequentialWindow
  /\ transfers[2].timeStamp - transfers[3].timeStamp = ShortGap
  /\ ~GotSequential(reports[1], W1) /\ ~GotSequential(reports[1], W2)

(* ------------------------------------------------------------------ *)
(* Transfers back and forth at the edge of the timing window           *)
(* ------------------------------------------------------------------ *)

MaxTimingTransfers == 5

\* W1 and the target send to each other, and W1 sends to W2.
TimingPairs == { <<Target, W1>>, <<W1, Target>>, <<W1, W2>> }

\* The gaps between one transfer and the next: inside the window, and exactly
\* the window.
TimingGaps == {ShortGap, TimingWindow}

InitTiming ==
  /\ transfers = <<>>
  /\ balances = <<>>
  /\ fundingSources = <<>>
  /\ now = NewestTimestamp + TimestampGap
  /\ reports = <<>>
  /\ histories = <<>>
  /\ origins = <<>>

\* One more transfer of the scan data, before the analysis.
FetchTimingTransfer ==
  /\ reports = <<>>
  /\ Len(transfers) < MaxTimingTransfers
  /\ \E p \in TimingPairs, gap \in TimingGaps :
       transfers' = Append(transfers,
                      [ hash |-> Len(transfers) + 1, from |-> p[1], to |-> p[2],
                        value |-> DispersalAmount, timeStamp |-> OlderBy(gap) ])
  /\ UNCHANGED <<balances, fundingSources, now, reports, histories, origins>>

NextTiming == FetchTimingTransfer \/ Analyze

SpecTiming == InitTiming /\ [][NextTiming]_vars

\* The positions of the transfers between the target and the wallet a.
WithTarget(a) ==
  {i \in 1..Len(transfers) :
     \/ transfers[i].from = Target /\ transfers[i].to = a
     \/ transfers[i].from = a /\ transfers[i].to = Target}

\* The pairs of transfers between the target and a that are next to each
\* other in time, of opposite directions and less than TimingWindow apart.
RapidPairs(a) ==
  { p \in WithTarget(a) \X WithTarget(a) :
      /\ transfers[p[1]].timeStamp < transfers[p[2]].timeStamp
      /\ ~\E x \in WithTarget(a) : /\ transfers[p[1]].timeStamp < transfers[x].timeStamp
                                   /\ transfers[x].timeStamp < transfers[p[2]].timeStamp
      /\ transfers[p[1]].from # transfers[p[2]].from
      /\ transfers[p[2]].timeStamp - transfers[p[1]].timeStamp < TimingWindow }

\* The points the timing heuristic gave to a score, 0 when it did not fire.
TimingPoints(sc) ==
  LET at == ReasonAt(sc, "Rapid transfer timing (< 5 min windows)")
  IN  IF at = {} THEN 0 ELSE sc.points[CHOOSE i \in at : TRUE]

\* C24: the timing contribution of a wallet is 15 for at least 3 adjacent
\* pairs of its transfers with the target that have opposite directions and
\* are strictly less than 300 seconds apart, 10 for exactly 2, 5 for exactly
\* 1 and 0 otherwise; pairs of one direction or exactly 300 seconds apart are
\* not counted.
C24_TimingByRapidPairs ==
  \A k \in 1..Len(reports) : \A n \in 1..Len(reports[k].allScores) :
    LET sc == reports[k].allScores[n]
        rapid == Cardinality(RapidPairs(ToLower(sc.address)))
    IN  /\ Cardinality(ReasonAt(sc, "Rapid transfer timing (< 5 min windows)")) <= 1
        /\ TimingPoints(sc) = IF rapid >= 3 THEN 15
                              ELSE IF rapid = 2 THEN 10
                              ELSE IF rapid = 1 THEN 5
                              ELSE 0

\* Five transfers between W1 and the target: two rapid pairs, one pair
\* exactly 300 seconds apart and one pair of the same direction.
C24_Witness ==
  /\ reports # <<>>
  /\ Len(transfers) = 5
  /\ WithTarget(W1) = 1..5
  /\ Cardinality(RapidPairs(W1)) = 2
  /\ \E i \in 1..4 : /\ transfers[i].from # transfers[i + 1].from
                     /\ transfers[i].timeStamp - transfers[i + 1].timeStamp = TimingWindow
  /\ \E i \in 1..4 : /\ transfers[i].from = transfers[i + 1].from
                     /\ transfers[i].timeStamp - transfers[i + 1].timeStamp = ShortGap
  /\ TimingPoints(ScoreOf(reports[1], W1)[1]) = 10

(* ------------------------------------------------------------------ *)
(* A ghost that keeps a remainder                                      *)
(* ------------------------------------------------------------------ *)

MaxColdTransfers == 3

\* What the ghost keeps of the ReceivedAmount that went through it.
Remainder == 10

\* W1 receives from W2 and sends to W3; the target sends to W3.
ColdPairs == { <<W2, W1>>, <<W1, W3>>, <<Target, W3>> }

ColdBalances ==
  { (W1 :> a) @@ (W2 :> 0) @@ (W3 :> b) : a \in {0, Remainder}, b \in {0, HolderBalance} }

InitCold ==
  /\ transfers = <<>>
  /\ balances \in ColdBalances
  /\ fundingSources = <<>>
  /\ now = NewestTimestamp + TimestampGap
  /\ reports = <<>>
  /\ histories = <<>>
  /\ origins = <<>>

\* One more transfer of the scan data, newest first.
FetchColdTransfer ==
  /\ reports = <<>>
  /\ Len(transfers) < MaxColdTransfers
  /\ \E p \in ColdPairs :
       transfers' = Append(transfers,
                      [ hash |-> Len(transfers) + 1, from |-> p[1], to |-> p[2],
                        value |-> ReceivedAmount,
                        timeStamp |-> NewestTimestamp - Len(transfers) * TimestampGap ])
  /\ UNCHANGED <<balances, fundingSources, now, reports, histories, origins>>

NextCold == FetchColdTransfer \/ Analyze

SpecCold == InitCold /\ [][NextCold]_vars

\* The listed wallets for which the received-then-held heuristic fired.
HeldWallets(r) ==
  {i \in 1..Len(r.wallets) : "Received tokens and still holding" \in Range(r.wallets[i].reasons)}

ColdStorageFlags(r) == SelectSeq(r.riskFlags, LAMBDA f : f.kind = "Cold storage pattern")

\* C25: the cold-storage risk flag is emitted iff at least one listed wallet
\* fired the received-then-held heuristic, and the count it reports is the
\* number of listed wallets for which that heuristic fired; wallets carrying
\* only other reasons, the pass-through reason for one, are not counted.
C25_ColdStorageCount ==
  \A k \in 1..Len(reports) :
    /\ Len(ColdStorageFlags(reports[k])) = IF HeldWallets(reports[k]) = {} THEN 0 ELSE 1
    /\ \A i \in 1..Len(ColdStorageFlags(reports[k])) :
         ColdStorageFlags(reports[k])[i].count = Cardinality(HeldWallets(reports[k]))

(* ------------------------------------------------------------------ *)
(* Properties of the recipient list                                    *)
(* ------------------------------------------------------------------ *)

\* The recipients of the history recorded by the k-th reconstruction.
RecipientsOf(k) == histories[k].history.disposition.sentToWallets.recipients

HoldsMajority(r) == 2 * r.currentBalance > r.amountReceived
SoldMajority(r) == 2 * r.soldFromHere > r.amountReceived
PassedMajority(r) == 2 * r.passedAlong > r.amountReceived

\* C26: in every RecipientDisposition, holding means the current balance is
\* strictly more than 50% of the amount received; sold means not holding and
\* more than 50% sent to DEX/contracts; passed-along means neither and more
\* than 50% forwarded to other wallets; mixed means some outflow and none of
\* the three majorities.  The list has at most 10 entries, in non-increasing
\* order of amount received.
C26_RecipientStatus ==
  \A k \in 1..Len(histories) :
    /\ Len(RecipientsOf(k)) <= TopRecipients
    /\ \A i \in 1..Len(RecipientsOf(k)) - 1 :
         RecipientsOf(k)[i].amountReceived >= RecipientsOf(k)[i + 1].amountReceived
    /\ \A i \in 1..Len(RecipientsOf(k)) :
         LET r == RecipientsOf(k)[i]
         IN  /\ r.status \in {"holding", "sold", "passed-along", "mixed"}
             /\ r.status = "holding" => HoldsMajority(r)
             /\ r.status = "sold" => ~HoldsMajority(r) /\ SoldMajority(r)
             /\ r.status = "passed-along"
                  => ~HoldsMajority(r) /\ ~SoldMajority(r) /\ PassedMajority(r)
             /\ r.status = "mixed"
                  => /\ r.soldFromHere > 0 \/ r.passedAlong > 0
                     /\ ~HoldsMajority(r) /\ ~SoldMajority(r) /\ ~PassedMajority(r)

(* ------------------------------------------------------------------ *)
(* What the target sent                                                *)
(* ------------------------------------------------------------------ *)

MaxOutboundTransfers == 3

\* The largest amount of one transfer the target sends.
MaxOutboundAmount == 2

\* The target sends to two wallets, to a detected contract and to a DEX router
\* that is not among the detected contracts, and receives from W1.
OutboundPairs ==
  { <<Target, W1>>, <<Target, W2>>, <<Target, Pair>>, <<Target, Router>>, <<W1, Target>> }

InitOutbound ==
  /\ transfers = <<>>
  /\ balances \in ScanBalances
  /\ fundingSources = <<>>
  /\ now = NewestTimestamp + TimestampGap
  /\ reports = <<>>
  /\ histories = <<>>
  /\ origins = <<>>

\* One more transfer of the scan data, newest first.
FetchOutboundTransfer ==
  /\ reports = <<>>
  /\ Len(transfers) < MaxOutboundTransfers
  /\ \E p \in OutboundPairs, v \in 1..MaxOutboundAmount :
       transfers' = Append(transfers,
                      [ hash |-> Len(transfers) + 1, from |-> p[1], to |-> p[2], value |-> v,
                        timeStamp |-> NewestTimestamp - Len(transfers) * TimestampGap ])
  /\ UNCHANGED <<balances, fundingSources, now, reports, histories, origins>>

NextOutbound == FetchOutboundTransfer \/ Summarise

SpecOutbound == InitOutbound /\ [][NextOutbound]_vars

\* The transfers the target sent, and those of them that went to the contract
\* set.
SentByTarget == SelectSeq(transfers, LAMBDA tx : tx.from = Target)

SentToContractSet == SelectSeq(SentByTarget, LAMBDA tx : tx.to \in DetectedContracts)

ReplayedTxs(k) == WalletTxs(histories[k].transfers, ToLower(W1))

\* The accumulators of the k-th reconstruction after n iterations of the loop.
ReplayAfter(k, n) == Replay(SubSeq(ReplayedTxs(k), 1, n), ToLower(W1), DetectedContracts)

\* The iterations after which the running balance is the final peak.
AtFinalPeak(k) ==
  {n \in 1..Len(ReplayedTxs(k)) :
     ReplayAfter(k, n).runningBalance = histories[k].history.peakBalance}

\* C28: at every step of the chronological replay 0 <= runningBalance <=
\* peakBalance <= totalReceived; peakBalance never decreases from one step to
\* the next; and peakDate is the timestamp of the first transfer after which
\* the running balance reached the final peakBalance (it stays 0 when the
\* balance never rose above 0).
C28_ReplayInvariant ==
  \A k \in 1..Len(histories) :
    /\ \A n \in 0..Len(ReplayedTxs(k)) :
         /\ 0 <= ReplayAfter(k, n).runningBalance
         /\ ReplayAfter(k, n).runningBalance <= ReplayAfter(k, n).peakBalance
         /\ ReplayAfter(k, n).peakBalance <= ReplayAfter(k, n).totalReceived
    /\ \A n \in 1..Len(ReplayedTxs(k)) :
         ReplayAfter(k, n - 1).peakBalance <= ReplayAfter(k, n).peakBalance
    /\ ReplayAfter(k, Len(ReplayedTxs(k))).peakBalance = histories[k].history.peakBalance
    /\ ReplayAfter(k, Len(ReplayedTxs(k))).totalReceived = histories[k].history.totalReceived
    /\ IF histories[k].history.peakBalance > 0
         THEN /\ AtFinalPeak(k) # {}
              /\ histories[k].history.peakDate
                   = Ts(ReplayedTxs(k)[CHOOSE n \in AtFinalPeak(k) :
                                         \A m \in AtFinalPeak(k) : n <= m])
         ELSE histories[k].history.peakDate = 0

\* W1 sent before it received anything, so the balance was clamped at 0; it
\* reached its peak with the second transfer and fell below it afterwards.
C28_Witness ==
  /\ histories # <<>>
  /\ Len(ReplayedTxs(1)) = 3
  /\ ReplayedTxs(1)[1].from = W1 /\ ReplayedTxs(1)[1].to # W1 /\ ReplayedTxs(1)[1].value = 1
  /\ histories[1].history.peakBalance = 1
  /\ histories[1].history.peakDate = Ts(ReplayedTxs(1)[2])
  /\ ReplayAfter(1, 3).runningBalance = 0
  /\ histories[1].history.totalReceived = 1

(* ------------------------------------------------------------------ *)
(* One set of transfers presented in two orders                        *)
(* ------------------------------------------------------------------ *)

MaxOrderTransfers == 3

\* The timestamps of the transfers: two blocks, a block giving all its
\* transfers one timestamp.
OrderTimes == {NewestTimestamp - TimestampGap, NewestTimestamp}

OrderPairs == { <<Target, W1>>, <<W1, W2>> }

InitOrder ==
  /\ transfers = <<>>
  /\ balances = <<>>
  /\ fundingSources = <<>>
  /\ now = NewestTimestamp + TimestampGap
  /\ reports = <<>>
  /\ histories = <<>>
  /\ origins = <<>>

\* One more transfer of the list the caller holds.
FetchOrderTransfer ==
  /\ histories = <<>>
  /\ Len(transfers) < MaxOrderTransfers
  /\ \E p \in OrderPairs, t \in OrderTimes :
       transfers' = Append(transfers,
                      [ hash |-> Len(transfers) + 1, from |-> p[1], to |-> p[2],
                        value |-> MaxAmount, timeStamp |-> t ])
  /\ UNCHANGED <<balances, fundingSources, now, reports, histories, origins>>

\* The orderings of a list.
Orderings(s) ==
  { [i \in 1..Len(s) |-> s[f[i]]] :
      f \in {g \in [1..Len(s) -> 1..Len(s)] : \A i, j \in 1..Len(s) : g[i] = g[j] => i = j} }

\* Between two reconstructions the caller presents the same transfers in
\* another order.
Reorder ==
  /\ Len(histories) = 1
  /\ transfers' \in Orderings(transfers) \ {transfers}
  /\ UNCHANGED <<balances, fundingSources, now, reports, histories, origins>>

NextOrder == FetchOrderTransfer \/ Reconstruct \/ Reorder

SpecOrder == InitOrder /\ [][NextOrder]_vars

\* The fields of a history the claim names.
OrderFreeFields(h) ==
  << h.peakBalance, h.peakDate, h.totalReceived, h.totalSent, h.disposition, h.isGhost >>

\* C29: the result of reconstructWalletHistory depends only on the set of
\* transfers, not on the order in which the list presents them: two
\* orderings of the same transfers, transfers that share a timestamp
\* included, give the same peakBalance, peakDate, totals, disposition and
\* isGhost.
C29_OrderIndependent ==
  \A i, j \in 1..Len(histories) :
    /\ Range(histories[i].transfers) = Range(histories[j].transfers)
    /\ histories[i].balances = histories[j].balances
    => OrderFreeFields(histories[i].history) = OrderFreeFields(histories[j].history)

(* ------------------------------------------------------------------ *)
(* Properties of the confidence override                              *)
(* ------------------------------------------------------------------ *)

\* The longest transfer list of the scan.
MaxOverrideTransfers == 3

\* The ghost W1 receives from the target or from W2 and passes on to W2.
OverridePairs == { <<Target, W1>>, <<W2, W1>>, <<W1, W2>>, <<Target, W2>> }

\* The funding maps of the scan: nothing known, the funder of W2 alone, which
\* is the target's, or that of W1 as well.
OverrideFunding ==
  { <<>>,
    << <<Target, "f1">>, <<W2, "f1">> >>,
    << <<Target, "f1">>, <<W1, "F1">>, <<W2, "f1">> >> }

InitOverride ==
  /\ transfers = <<>>
  /\ balances \in PassedBalances
  /\ fundingSources \in OverrideFunding
  /\ now = NewestTimestamp + TimestampGap
  /\ reports = <<>>
  /\ histories = <<>>
  /\ origins = <<>>

\* One more transfer of the scan data, before the analysis.
FetchOverrideTransfer ==
  /\ reports = <<>>
  /\ Len(transfers) < MaxOverrideTransfers
  /\ \E p \in OverridePairs, v \in {PassedAmount, ReceivedAmount} :
       transfers' = Append(transfers,
                      [ hash |-> Len(transfers) + 1, from |-> p[1], to |-> p[2], value |-> v,
                        timeStamp |-> NewestTimestamp - Len(transfers) * TimestampGap ])
  /\ UNCHANGED <<balances, fundingSources, now, reports, histories, origins>>

NextOverride == FetchOverrideTransfer \/ Analyze

SpecOverride == InitOverride /\ [][NextOverride]_vars

\* The wallet list of the report r as the conversion made it, before the
\* override loop ran.
BeforeOverride(r) == ConvertScores(SortByScoreDesc(SelectSeq(r.allScores, Admitted)))

\* The listed wallets of the report r that end in one of the tiers.
FinallyIn(r, tiers) == {i \in 1..Len(r.wallets) : r.wallets[i].confidence \in tiers}

RECURSIVE ListedBalance(_, _)
\* The sum of the balances of the listed wallets at the positions S.
ListedBalance(r, S) ==
  IF S = {} THEN 0
  ELSE LET i == CHOOSE x \in S : TRUE
       IN  r.wallets[i].balance + ListedBalance(r, S \ {i})

\* C30: the pass-through override changes nothing but the confidence of
\* listed wallets: the list after it has the wallets of the list before it
\* at the same positions, each with the same tokenOrigin, tokenOriginDetails,
\* reasons, balance and every other field but confidence; walletHistories
\* and ghostWallets are what the reconstruction made them; and the totals
\* follow the final tiers: totalHeldByCluster is the sum of the balances of
\* the wallets finally HIGH or MEDIUM, totalPossibleHidden of those finally
\* LOW.
C30_OverrideFrame ==
  \A k \in 1..Len(reports) :
    LET r == reports[k]
        before == BeforeOverride(r)
        rebuilt == WalletHistories(WalletNodes(ScanResult.nodes), ScanResult)
    IN  /\ Len(r.wallets) = Len(before)
        /\ \A i \in 1..Len(r.wallets) :
             [r.wallets[i] EXCEPT !.confidence = before[i].confidence] = before[i]
        /\ r.walletHistories = rebuilt
        /\ r.ghostWallets = GhostWallets(rebuilt)
        /\ r.totalHeldByCluster = ListedBalance(r, FinallyIn(r, {"high", "medium"}))
        /\ r.totalPossibleHidden = ListedBalance(r, FinallyIn(r, {"low"}))

\* A report in which the ghost W1, holding a leftover, scored LOW and was
\* raised by the override to the tier of its holder W2, so that its balance
\* is counted in totalHeldByCluster and not in totalPossibleHidden.
C30_Witness ==
  /\ reports # <<>>
  /\ ListedWallet(reports[1], W1) # <<>>
  /\ ListedWallet(reports[1], W1)[1].balance > 0
  /\ ConfidenceOf(ListedWallet(reports[1], W1)[1].score) = "low"
  /\ ListedWallet(reports[1], W1)[1].confidence \in {"high", "medium"}
  /\ reports[1].ghostWallets # <<>>
  /\ reports[1].totalPossibleHidden = 0
  /\ reports[1].totalHeldByCluster = ListedWallet(reports[1], W1)[1].balance + HolderBalance

====
